---- MODULE Spec2Model ----
(***************************************************************************)
(* slot-machine: single-host zero-downtime deploy daemon.                  *)
(* Model of the orchestrator (cmd/slot-machine): the deploy and rollback   *)
(* pipelines, the per-slot exit watcher, the drain protocol, the dynamic   *)
(* reverse proxies and the on-disk slot directories and symlinks.          *)
(***************************************************************************)
EXTENDS Integers, Sequences, FiniteSets, TLC

\* ------------------------------------------------------------------ bounds
NumHandlers == 2      \* concurrent control-API request goroutines
MaxSlots    == 4      \* slot objects that are reachable at the same time
NumPorts    == 4      \* ephemeral ports the kernel hands out
MaxFaults   == 1      \* crashes, timeouts of a running app, failed spawns
MaxOps      == 3      \* pipelines (deploy or rollback) that get past the lock
SeqOps      == 4      \* pipelines of the longest sequence of operations followed
MaxProbes   == 2      \* probes of /healthz that fit before the health deadline
NumConvs    == 2      \* conversations of the agent service
NumStreams  == 3      \* goroutines that serve stream requests
MaxBoots    == 1      \* times the daemon is stopped and started again

\* ------------------------------------------------------- program constants
PrefixLen == 8        \* commit[:8]

\* ------------------------------------------------------------------ inputs
CommitA  == <<1, 1, 1, 1, 1, 1, 1, 1, 1>>
CommitB  == <<2, 2, 2, 2, 2, 2, 2, 2, 2>>
CommitC  == <<3, 3, 3, 3, 3, 3, 3, 3, 3>>
CommitS  == <<4, 4, 4, 4>>            \* resolvable, shorter than 8 characters
Commits  == {CommitA, CommitB, CommitC, CommitS}

\* Request paths, a sequence of pieces each: what a client of the public port
\* asks for.
AppPath    == <<"/">>
StreamPath == <<"/", "agent", "/", "conversations", "/", "c1", "/", "stream">>
Paths ==
    {AppPath, StreamPath,
     <<"/", "chat">>, <<"/", "chat", "/">>, <<"/", "chat", "/", "config">>,
     <<"/", "chat", ".css">>, <<"/", "chatter">>,
     <<"/", "agent">>, <<"/", "agent", "/">>, <<"/", "agent", "/", "conversations">>,
     <<"/", "agents", "/">>, <<"/", "api", "/", "agent", "/">>,
     <<"/", "api", "/", "chat">>}

Handlers == 1..NumHandlers
Main     == 0                         \* cmdStart: recoverState, signal handler
Threads  == Handlers \cup {Main}
SlotIds  == 1..MaxSlots
Convs    == 1..NumConvs
Streams  == 1..NumStreams
Ports    == 1..NumPorts
Nil      == 0

\* ------------------------------------------------------------ slot, names
NoName      == <<>>
StagingName == <<"slot-staging">>
slotNameOf(commit) == <<"slot-", SubSeq(commit, 1, PrefixLen)>>
drainingOf(name)   == <<name[1], name[2], ".draining">>

NoSlot == [name |-> NoName, commit |-> <<>>, dir |-> NoName, cmd |-> FALSE,
           done |-> FALSE, alive |-> FALSE, appPort |-> 0, intPort |-> 0,
           proc |-> "none", sig |-> "none"]

VARIABLES
    deploying,   \* orchestrator.deploying
    liveSlot,    \* orchestrator.liveSlot (slot id or Nil)
    prevSlot,    \* orchestrator.prevSlot (slot id or Nil)
    lastDeploy,  \* orchestrator.lastDeploy is non-zero
    mu,          \* orchestrator.mu: Nil, or the slot whose exit watcher holds it
    slots,       \* heap of slot objects with the state of their process
    appProxy,    \* dynamicProxy for config.Port
    intProxy,    \* dynamicProxy for config.InternalPort
    hs,          \* per goroutine (requests, Main): position and locals
    dirs,        \* <data>/: directory name -> commit checked out in its worktree
    links,       \* <data>/live and <data>/prev symlinks
    resp,        \* control API: the answer last written (none while a pipeline runs)
    ops,         \* pipelines started so far
    faults,      \* environment faults so far
    hist,        \* successful operations so far (history)
    boots,       \* times the daemon was started again
    req,         \* public-proxy request in flight and the last answer
    shared,      \* shared_dirs: the canonical directory and each worktree's path
    agent        \* agentService: sessions, agent processes, stream handlers

vars == <<deploying, liveSlot, prevSlot, lastDeploy, mu, slots, appProxy,
          intProxy, hs, dirs, links, resp, ops, faults, hist, boots, req, shared, agent>>

orchVars  == <<deploying, liveSlot, prevSlot, lastDeploy>>
proxyVars == <<appProxy, intProxy>>
diskVars  == <<dirs, links>>

IdleH == [pc |-> "idle", op |-> "none", commit |-> <<>>, oldLive |-> Nil,
          oldPrev |-> Nil, newSlot |-> Nil, slotName |-> NoName,
          drainingDir |-> NoName, tgt |-> Nil, ret |-> "idle", probes |-> 0]

\* No answer yet: what a request has before its handler writes one.
NoResp == [op |-> "none", code |-> 0, success |-> FALSE, error |-> ""]
NoReq  == [pc |-> "idle", port |-> 0, conn |-> "none", answer |-> "none",
           deployed |-> FALSE, path |-> << >>, since |-> 0]

\* What is at a shared path: nothing, a directory with files of its own, or
\* the symlink applySharedDirs makes to the canonical directory.
Absent  == [kind |-> "none", files |-> {}]
Symlink == [kind |-> "link", files |-> {}]
Dir(S)  == [kind |-> "dir", files |-> S]

\* No shared_dirs in the config: nothing tracked, nothing canonical.
NoShared == [tree |-> Absent, repo |-> Absent, at |-> [n \in {} |-> Absent]]

\* A goroutine of the agent service outside handleStream; conv and code are
\* those of its last request.
IdleStream == [pc |-> "idle", conv |-> 0, code |-> 0]

\* agentService as constructed: no session, no agent process.
NoAgent == [sessions |-> {}, procs |-> [c \in Convs |-> 0],
            st |-> [g \in Streams |-> IdleStream]]

\* newDynamicProxy: no target, no listener (cmdStart gives both an address).
newDynamicProxy == [port |-> 0, srv |-> FALSE]

Init ==
    /\ deploying = FALSE
    /\ liveSlot = Nil
    /\ prevSlot = Nil
    /\ lastDeploy = FALSE
    /\ mu = Nil
    /\ slots = [s \in SlotIds |-> NoSlot]
    /\ appProxy = newDynamicProxy
    /\ intProxy = newDynamicProxy
    /\ hs = [h \in Threads |-> IdleH]
    /\ dirs = [n \in {} |-> << >>]
    /\ links = [live |-> NoName, prev |-> NoName]
    /\ resp = NoResp
    /\ ops = 0
    /\ faults = 0
    /\ hist = << >>
    /\ boots = 0
    /\ req = NoReq
    /\ shared = NoShared
    /\ agent = NoAgent

\* ------------------------------------------------------------- filesystem
exists(n)        == n \in DOMAIN dirs
dirPut(d, n, c)  == [x \in (DOMAIN d) \cup {n} |-> IF x = n THEN c ELSE d[x]]
dirDel(d, n)     == [x \in (DOMAIN d) \ {n} |-> d[x]]
\* os.Rename(from, to) of a directory that exists onto a name that does not.
dirRename(d, from, to) == dirPut(dirDel(d, from), to, d[from])

\* ------------------------------------------------------------------ proxy
\* A setTarget that records the port and never opens a listener.
setTarget_noListen(p, port) == [port |-> port, srv |-> p.srv]

\* dynamicProxy.setTarget: record the port, lazily open the listener.
setTarget(p, port) == [port |-> port, srv |-> p.srv \/ port > 0]
\* A clearTarget that leaves the listener up.
clearTarget_keepsListener(p) == [port |-> 0, srv |-> p.srv]

\* dynamicProxy.clearTarget: port 0 and the server is closed.
clearTarget(p) == [port |-> 0, srv |-> FALSE]
\* A close of the server that spares the connections it has accepted.
closeConns_spares(r) == r

\* p.srv.Close() also closes the connections the server has accepted.
closeConns(r) == IF r.pc # "idle" THEN [r EXCEPT !.conn = "closed"] ELSE r

\* ------------------------------------------------------------- supervisor
running(s) == slots[s].proc = "running"
\* A process an earlier daemon left behind still holds its ports.
orphan(s)  == slots[s].proc = "orphan"

\* findFreePort: the kernel hands out a port no running process is bound to,
\* here the lowest one; the second call gets the next one. Fewer than two
\* free ports: the allocation fails.
boundPorts ==
    UNION {{slots[s].appPort, slots[s].intPort} :
             s \in {x \in SlotIds : running(x) \/ orphan(x)}}
lowest(S)  == CHOOSE p \in S : \A q \in S : p <= q
findFreePort ==
    LET free == Ports \ boundPorts IN
    IF Cardinality(free) < 2 THEN {}
    ELSE {<<lowest(free), lowest(free \ {lowest(free)})>>}

\* An environment fault is still within the budget.
mayFault == faults < MaxFaults

\* Slot objects still reachable: from the orchestrator, from a pipeline's
\* locals, or from an exit watcher that has not finished.
referenced(sl, live, prev, hh) ==
    {live, prev}
    \cup UNION {{hh[h].oldLive, hh[h].oldPrev, hh[h].newSlot, hh[h].tgt} : h \in Threads}
    \cup {s \in SlotIds : sl[s].cmd /\ ~sl[s].done}
    \cup {s \in SlotIds : sl[s].proc = "orphan"}
\* Unreachable slot objects are garbage: their cells are blank again.
collect(sl, live, prev, hh) ==
    [s \in SlotIds |-> IF s \in referenced(sl, live, prev, hh) THEN sl[s] ELSE NoSlot]
freeSlotIds == {s \in SlotIds : slots[s] = NoSlot /\ s \notin referenced(slots, liveSlot, prevSlot, hs)}
newSlotId   == CHOOSE s \in freeSlotIds : \A t \in freeSlotIds : s <= t

\* startProcess: the slot object of a process that cmd.Start() has spawned.
startProcess(dir, commit, appPort, intPort) ==
    [name |-> dir, commit |-> commit, dir |-> dir, cmd |-> TRUE, done |-> FALSE,
     alive |-> TRUE, appPort |-> appPort, intPort |-> intPort,
     proc |-> "running", sig |-> "none"]

\* syscall.Kill(-pid, sig): recorded on a running process group; SIGKILL ends it.
signal(sl, s, sg) ==
    IF sl[s].proc # "running" THEN sl
    ELSE [sl EXCEPT ![s].sig = sg,
                    ![s].proc = IF sg = "KILL" THEN "exited" ELSE @]

\* The child exits on its own (crash, or exit on a SIGTERM it honours).
ProcessExit(s) ==
    /\ running(s)
    /\ slots[s].sig = "TERM" \/ mayFault
    /\ faults' = IF slots[s].sig = "TERM" THEN faults ELSE faults + 1
    /\ slots' = [slots EXCEPT ![s].proc = "exited"]
    /\ UNCHANGED <<orchVars, mu, proxyVars, hs, diskVars, resp, ops, req>>

\* An exit watcher that leaves the proxies alone.
watcherClears_never(s) == FALSE

\* An exit watcher that clears the proxies for any slot that exits.
watcherClears_always(s) == TRUE

\* An exit watcher that also clears the proxies for the prev slot.
watcherClears_prev(s) == liveSlot = s \/ prevSlot = s

\* The exit watcher's test under the lock: is the exited slot still live?
watcherClears(s) == liveSlot = s

\* Exit watcher, cmd.Wait() returned: take o.mu, alive = false, test liveSlot.
WatcherLock(s) ==
    /\ slots[s].proc = "exited"
    /\ mu = Nil
    /\ IF watcherClears(s)
       THEN /\ mu' = s
            /\ slots' = [slots EXCEPT ![s].alive = FALSE, ![s].proc = "clearApp"]
       ELSE /\ mu' = Nil
            /\ slots' = [slots EXCEPT ![s].alive = FALSE, ![s].proc = "close"]
    /\ UNCHANGED <<orchVars, proxyVars, hs, diskVars, resp, ops, faults, req>>

\* Exit watcher, still under o.mu: o.appProxy.clearTarget().
WatcherClearApp(s) ==
    /\ slots[s].proc = "clearApp"
    /\ appProxy' = clearTarget(appProxy)
    /\ req' = closeConns(req)
    /\ slots' = [slots EXCEPT ![s].proc = "clearInt"]
    /\ UNCHANGED <<orchVars, mu, intProxy, hs, diskVars, resp, ops, faults>>

\* Exit watcher: o.intProxy.clearTarget(), then o.mu.Unlock().
WatcherClearInt(s) ==
    /\ slots[s].proc = "clearInt"
    /\ intProxy' = clearTarget(intProxy)
    /\ slots' = [slots EXCEPT ![s].proc = "close"]
    /\ mu' = Nil
    /\ UNCHANGED <<orchVars, appProxy, hs, diskVars, resp, ops, faults, req>>

\* Exit watcher: close(s.done).
WatcherClose(s) ==
    /\ slots[s].proc = "close"
    /\ slots' = collect([slots EXCEPT ![s].done = TRUE, ![s].proc = "reaped",
                                      ![s].sig = "none"],
                        liveSlot, prevSlot, hs)
    /\ UNCHANGED <<orchVars, mu, proxyVars, hs, diskVars, resp, ops, faults, req>>

\* ------------------------------------------------------------------ drain
\* drain(s), entered with hs[h].tgt = s and hs[h].ret = where to continue.
\* Nothing to do for nil or a cold slot; otherwise SIGTERM to the group.
DrainTerm(h) ==
    /\ hs[h].pc = "drain"
    /\ LET s == hs[h].tgt IN
       IF s = Nil \/ ~slots[s].cmd
       THEN /\ hs' = [hs EXCEPT ![h].pc = hs[h].ret, ![h].tgt = Nil, ![h].ret = "idle"]
            /\ slots' = slots
       ELSE /\ hs' = [hs EXCEPT ![h].pc = "drainWait"]
            /\ slots' = signal(slots, s, "TERM")
    /\ UNCHANGED <<orchVars, mu, proxyVars, diskVars, resp, ops, faults, req>>

\* A drain that returns without its slot's done.
DrainDone_noWait(h) ==
    /\ hs[h].pc \in {"drainWait", "drainKilled"}
    /\ hs' = [hs EXCEPT ![h].pc = hs[h].ret, ![h].tgt = Nil, ![h].ret = "idle"]
    /\ UNCHANGED <<orchVars, mu, slots, proxyVars, diskVars, resp, ops, faults, req>>

\* select: <-s.done came first.
DrainDone(h) ==
    /\ hs[h].pc \in {"drainWait", "drainKilled"}
    /\ slots[hs[h].tgt].done
    /\ hs' = [hs EXCEPT ![h].pc = hs[h].ret, ![h].tgt = Nil, ![h].ret = "idle"]
    /\ UNCHANGED <<orchVars, mu, slots, proxyVars, diskVars, resp, ops, faults, req>>

\* select: the drain timeout came first: SIGKILL, then wait for done.
DrainTimeout(h) ==
    /\ hs[h].pc = "drainWait"
    /\ slots' = signal(slots, hs[h].tgt, "KILL")
    /\ hs' = [hs EXCEPT ![h].pc = "drainKilled"]
    /\ UNCHANGED <<orchVars, mu, proxyVars, diskVars, resp, ops, faults, req>>

\* ------------------------------------------------------------ health check
\* healthCheck(newSlot) polls until success, done or the deadline; probes
\* counts the polls that failed, MaxProbes of them reach the deadline.
\* A poll answered 200, which takes a running process: return true.
HealthPass(h) ==
    /\ hs[h].pc = "health"
    /\ hs[h].probes < MaxProbes
    /\ running(hs[h].newSlot)
    /\ hs' = [hs EXCEPT ![h].pc = CASE hs[h].op = "deploy"   -> "healthy"
                                       [] hs[h].op = "rollback" -> "setApp"
                                       [] OTHER                 -> "recLive",
                        ![h].probes = 0]
    /\ UNCHANGED <<orchVars, mu, slots, proxyVars, diskVars, resp, ops, faults, req>>

\* A poll that fails (refused, timed out, not 200) before the deadline, done
\* not fired: sleep and poll again. A running app that does not answer 200
\* is a fault of the environment.
HealthRetry(h) ==
    /\ hs[h].pc = "health"
    /\ hs[h].probes < MaxProbes
    /\ ~slots[hs[h].newSlot].done
    /\ LET sick == running(hs[h].newSlot) /\ hs[h].probes = 0 IN
       /\ sick => mayFault
       /\ faults' = IF sick THEN faults + 1 ELSE faults
    /\ hs' = [hs EXCEPT ![h].probes = @ + 1]
    /\ UNCHANGED <<orchVars, mu, slots, proxyVars, diskVars, resp, ops, req>>

\* A health check that gives up at any moment.
HealthFail_early(h) ==
    /\ hs[h].pc = "health"
    /\ hs' = [hs EXCEPT ![h].pc = "unhealthy", ![h].probes = 0]
    /\ UNCHANGED <<orchVars, mu, slots, proxyVars, diskVars, resp, ops, faults, req>>

\* healthCheck returns false: done has fired or the deadline has passed.
HealthFail(h) ==
    /\ hs[h].pc = "health"
    /\ slots[hs[h].newSlot].done \/ hs[h].probes = MaxProbes
    /\ hs' = [hs EXCEPT ![h].pc = "unhealthy", ![h].probes = 0]
    /\ UNCHANGED <<orchVars, mu, slots, proxyVars, diskVars, resp, ops, faults, req>>

\* Unhealthy: syscall.Kill(-pid, SIGKILL), then block on <-newSlot.done.
KillNew(h) ==
    /\ hs[h].pc = "unhealthy"
    /\ slots' = signal(slots, hs[h].newSlot, "KILL")
    /\ hs' = [hs EXCEPT ![h].pc = "failWait"]
    /\ UNCHANGED <<orchVars, mu, proxyVars, diskVars, resp, ops, faults, req>>

\* ---------------------------------------------------------- pipeline exit
\* A return that leaves o.deploying as it is.
finish_holdsLock(h, code, success, error) ==
    /\ mu = Nil
    /\ deploying' = deploying
    /\ hs' = [hs EXCEPT ![h] = IdleH]
    /\ resp' = [op |-> hs[h].op, code |-> code, success |-> success, error |-> error]

\* return + the deferred o.deploying = false (under o.mu) + writeJSON.
\* code 0 stands for a panic: net/http recovers it and drops the connection.
finish(h, code, success, error) ==
    /\ mu = Nil
    /\ deploying' = FALSE
    /\ hs' = [hs EXCEPT ![h] = IdleH]
    /\ resp' = [op |-> hs[h].op, code |-> code, success |-> success, error |-> error]

\* --------------------------------------------------------------- doDeploy
\* A pipeline entry that does not look at o.deploying.
busy_unchecked == FALSE

\* The test of o.deploying under the lock.
busy == deploying

\* The API server listens from the end of recoverState until the signal
\* handler calls apiSrv.Shutdown.
serving == hs[Main].pc \in {"idle", "drain", "drainWait", "drainKilled", "sdPrev", "sdExit"}

\* net/http serves a request on a goroutine of its own: the lowest idle one.
serves(h) ==
    /\ serving
    /\ hs[h].pc = "idle"
    /\ \A g \in Handlers : g < h => hs[g].pc # "idle"

\* handleDeploy: body without a commit, or an empty one: 400.
DeployMissingCommit(h) ==
    /\ serves(h)
    /\ resp' = [op |-> "deploy", code |-> 400, success |-> FALSE, error |-> "missing commit"]
    /\ UNCHANGED <<orchVars, mu, slots, proxyVars, hs, diskVars, ops, faults, req>>


\* doDeploy, o.deploying set: 409 "deploy in progress".
DeployBusy(h) ==
    /\ serves(h)
    /\ mu = Nil
    /\ busy
    /\ resp' = [op |-> "deploy", code |-> 409, success |-> FALSE,
                 error |-> "deploy in progress"]
    /\ UNCHANGED <<orchVars, mu, slots, proxyVars, hs, diskVars, ops, faults, req>>

\* Commits are opaque to the daemon but for their length: of the full-length
\* commits that nothing in the state mentions, a request names the first.
mentioned ==
    {slots[s].commit : s \in SlotIds} \cup {dirs[n] : n \in DOMAIN dirs}
    \cup {hist[i].commit : i \in 1..Len(hist)}
requested(commit) ==
    \/ commit \in mentioned
    \/ Len(commit) < PrefixLen
    \/ \A c \in Commits \ mentioned : Len(c) >= PrefixLen => commit[1] <= c[1]

\* doDeploy: take the deploy lock, snapshot oldLive and oldPrev.
DeployBegin(h, commit) ==
    /\ serves(h)
    /\ requested(commit)
    /\ mu = Nil
    /\ ~busy
    /\ ops < MaxOps
    /\ deploying' = TRUE
    /\ hs' = [hs EXCEPT ![h] = [IdleH EXCEPT !.pc = "prepare", !.op = "deploy",
                                             !.commit = commit,
                                             !.oldLive = liveSlot,
                                             !.oldPrev = prevSlot]]
    /\ ops' = ops + 1
    /\ resp' = NoResp
    /\ UNCHANGED <<liveSlot, prevSlot, lastDeploy, mu, slots, proxyVars, diskVars,
                   faults, req>>

\* prepareSlot fails (checkout or worktree add): 500, staging as it was.
DeployPrepareFail(h) ==
    /\ hs[h].pc = "prepare"
    /\ hs[h].op = "deploy"
    /\ mayFault
    /\ faults' = faults + 1
    /\ finish(h, 500, FALSE, "prepare")
    /\ slots' = collect(slots, liveSlot, prevSlot, hs')
    /\ UNCHANGED <<liveSlot, prevSlot, lastDeploy, mu, proxyVars, diskVars, ops, req>>

\* A failing start that takes the live symlink away.
DeployStartFail_unlinks(h) ==
    /\ hs[h].pc = "prepare"
    /\ hs[h].op = "deploy"
    /\ findFreePort = {} \/ mayFault
    /\ faults' = IF findFreePort = {} THEN faults ELSE faults + 1
    /\ dirs' = dirPut(dirs, StagingName, hs[h].commit)
    /\ links' = [links EXCEPT !.live = NoName]
    /\ finish(h, 500, FALSE, "start")
    /\ slots' = collect(slots, liveSlot, prevSlot, hs')
    /\ UNCHANGED <<liveSlot, prevSlot, lastDeploy, mu, proxyVars, ops, req>>

\* prepareSlot pins staging to the commit; then findFreePort, the setup
\* command or cmd.Start() fails: 500.
DeployStartFail(h) ==
    /\ hs[h].pc = "prepare"
    /\ hs[h].op = "deploy"
    /\ findFreePort = {} \/ mayFault
    /\ faults' = IF findFreePort = {} THEN faults ELSE faults + 1
    /\ dirs' = dirPut(dirs, StagingName, hs[h].commit)
    /\ finish(h, 500, FALSE, "start")
    /\ slots' = collect(slots, liveSlot, prevSlot, hs')
    /\ UNCHANGED <<liveSlot, prevSlot, lastDeploy, mu, proxyVars, links, ops, req>>

\* A deploy that makes the new slot live as soon as it is spawned.
DeployStart_promotesEarly(h, appPort, intPort) ==
    /\ hs[h].pc = "prepare"
    /\ hs[h].op = "deploy"
    /\ freeSlotIds # {}
    /\ <<appPort, intPort>> \in findFreePort
    /\ dirs' = dirPut(dirs, StagingName, hs[h].commit)
    /\ slots' = [slots EXCEPT ![newSlotId] =
                     startProcess(StagingName, hs[h].commit, appPort, intPort)]
    /\ hs' = [hs EXCEPT ![h].pc = "health", ![h].newSlot = newSlotId]
    /\ liveSlot' = newSlotId
    /\ prevSlot' = liveSlot
    /\ UNCHANGED <<deploying, lastDeploy, mu, proxyVars, links, resp, ops, faults, req>>

\* prepareSlot, two fresh ports, setup, startProcess in staging.
DeployStart(h, appPort, intPort) ==
    /\ hs[h].pc = "prepare"
    /\ hs[h].op = "deploy"
    /\ freeSlotIds # {}
    /\ <<appPort, intPort>> \in findFreePort
    /\ dirs' = dirPut(dirs, StagingName, hs[h].commit)
    /\ slots' = [slots EXCEPT ![newSlotId] =
                     startProcess(StagingName, hs[h].commit, appPort, intPort)]
    /\ hs' = [hs EXCEPT ![h].pc = "health", ![h].newSlot = newSlotId]
    /\ UNCHANGED <<orchVars, mu, proxyVars, links, resp, ops, faults, req>>

\* An unhealthy deploy that answers without waiting for done.
DeployUnhealthy_noWait(h) ==
    /\ hs[h].pc = "failWait"
    /\ hs[h].op = "deploy"
    /\ finish(h, 200, FALSE, "")
    /\ slots' = collect(slots, liveSlot, prevSlot, hs')
    /\ UNCHANGED <<liveSlot, prevSlot, lastDeploy, mu, proxyVars, diskVars, ops, faults, req>>

\* Unhealthy deploy, done has fired: 200 with success:false.
DeployUnhealthy(h) ==
    /\ hs[h].pc = "failWait"
    /\ hs[h].op = "deploy"
    /\ slots[hs[h].newSlot].done
    /\ finish(h, 200, FALSE, "")
    /\ slots' = collect(slots, liveSlot, prevSlot, hs')
    /\ UNCHANGED <<liveSlot, prevSlot, lastDeploy, mu, proxyVars, diskVars, ops, faults, req>>

\* commit[:8] on a commit shorter than 8 characters: slice out of range. The
\* deferred unlock runs; the spawned process stays as it is.
DeployPanic(h) ==
    /\ hs[h].pc = "healthy"
    /\ Len(hs[h].commit) < PrefixLen
    /\ finish(h, 0, FALSE, "panic")
    /\ slots' = collect(slots, liveSlot, prevSlot, hs')
    /\ UNCHANGED <<liveSlot, prevSlot, lastDeploy, mu, proxyVars, diskVars, ops, faults, req>>

\* slotName = "slot-" + commit[:8]; GC of the old prev starts with its drain.
DeployName(h) ==
    /\ hs[h].pc = "healthy"
    /\ Len(hs[h].commit) >= PrefixLen
    /\ hs' = [hs EXCEPT ![h].slotName = slotNameOf(hs[h].commit),
                        ![h].pc = IF hs[h].oldPrev # Nil THEN "drain" ELSE "aside",
                        ![h].tgt = hs[h].oldPrev,
                        ![h].ret = IF hs[h].oldPrev # Nil THEN "gcRemove" ELSE "idle"]
    /\ UNCHANGED <<orchVars, mu, slots, proxyVars, diskVars, resp, ops, faults, req>>

\* A removeWorktree that leaves the directory in place.
removeWorktree_keeps(d, dir) == d

\* removeWorktree(oldPrev.dir).
removeWorktree(d, dir) == dirDel(d, dir)

DeployGcRemove(h) ==
    /\ hs[h].pc = "gcRemove"
    /\ dirs' = removeWorktree(dirs, slots[hs[h].oldPrev].dir)
    /\ hs' = [hs EXCEPT ![h].pc = "aside"]
    /\ UNCHANGED <<orchVars, mu, slots, proxyVars, links, resp, ops, faults, req>>

\* slotDir exists already: RemoveAll(slotDir.draining), Rename(slotDir, it).
DeployAside(h) ==
    /\ hs[h].pc = "aside"
    /\ IF exists(hs[h].slotName)
       THEN /\ dirs' = dirRename(dirDel(dirs, drainingOf(hs[h].slotName)),
                                 hs[h].slotName, drainingOf(hs[h].slotName))
            /\ hs' = [hs EXCEPT ![h].pc = "promote",
                                ![h].drainingDir = drainingOf(hs[h].slotName)]
       ELSE /\ dirs' = dirs
            /\ hs' = [hs EXCEPT ![h].pc = "promote"]
    /\ UNCHANGED <<orchVars, mu, slots, proxyVars, links, resp, ops, faults, req>>

\* promoteStaging renames slot-staging to slotDir; newSlot.dir, newSlot.name.
DeployPromote(h) ==
    /\ hs[h].pc = "promote"
    /\ dirs' = dirRename(dirs, StagingName, hs[h].slotName)
    /\ slots' = [slots EXCEPT ![hs[h].newSlot].dir = hs[h].slotName,
                              ![hs[h].newSlot].name = hs[h].slotName]
    /\ hs' = [hs EXCEPT ![h].pc = "setApp"]
    /\ UNCHANGED <<orchVars, mu, proxyVars, links, resp, ops, faults, req>>

\* ------------------------------------------------- promotion (both pipelines)
\* o.appProxy.setTarget(appPort).
SetTargetApp(h) ==
    /\ hs[h].pc = "setApp"
    /\ appProxy' = setTarget(appProxy, slots[hs[h].newSlot].appPort)
    /\ hs' = [hs EXCEPT ![h].pc = "setInt"]
    /\ UNCHANGED <<orchVars, mu, slots, intProxy, diskVars, resp, ops, faults, req>>

\* o.intProxy.setTarget(intPort).
SetTargetInt(h) ==
    /\ hs[h].pc = "setInt"
    /\ intProxy' = setTarget(intProxy, slots[hs[h].newSlot].intPort)
    /\ hs' = [hs EXCEPT ![h].pc = IF hs[h].op = "recover" THEN "recPrev" ELSE "switch"]
    /\ UNCHANGED <<orchVars, mu, slots, appProxy, diskVars, resp, ops, faults, req>>

\* A switch that leaves o.prevSlot as it was.
switchPrev_stale(h) == hs[h].oldPrev

\* A switch that keeps the oldest slot as prev once there is one.
switchPrev_keepOld(h) == IF hs[h].oldPrev # Nil THEN hs[h].oldPrev ELSE hs[h].oldLive

\* A switch that never makes prev a slot of the commit that goes live.
switchPrev_dedupe(h) ==
    IF hs[h].oldLive # Nil /\ slots[hs[h].oldLive].commit = hs[h].commit
    THEN hs[h].oldPrev ELSE hs[h].oldLive

\* A switch that leaves no prev behind a rollback.
switchPrev_rollbackForgets(h) == IF hs[h].op = "rollback" THEN Nil ELSE hs[h].oldLive

\* What the switch writes to o.prevSlot.
switchPrev(h) == hs[h].oldLive

\* A switch that writes o.liveSlot in a critical section of its own, before
\* the one that writes o.prevSlot.
Switch_liveFirst(h) ==
    /\ hs[h].pc = "switch"
    /\ mu = Nil
    /\ liveSlot' = hs[h].newSlot
    /\ UNCHANGED <<deploying, prevSlot, lastDeploy, slots, hs, mu, proxyVars,
                   diskVars, resp, ops, faults, req>>

\* Under o.mu: prevSlot = oldLive, liveSlot = newSlot, lastDeploy = now (a
\* rollback first names the new slot after prev); then the old live's drain.
Switch(h) ==
    /\ hs[h].pc = "switch"
    /\ mu = Nil
    /\ liveSlot' = hs[h].newSlot
    /\ prevSlot' = switchPrev(h)
    /\ lastDeploy' = TRUE
    /\ slots' = IF hs[h].op = "rollback"
                THEN [slots EXCEPT ![hs[h].newSlot].name = slots[hs[h].oldPrev].name]
                ELSE slots
    /\ hs' = IF hs[h].oldLive # Nil
             THEN [hs EXCEPT ![h].pc = "drain", ![h].tgt = hs[h].oldLive,
                             ![h].ret = "linkLive"]
             ELSE [hs EXCEPT ![h].pc = "linkLive"]
    /\ UNCHANGED <<deploying, mu, proxyVars, diskVars, resp, ops, faults, req>>

\* doDeploy: os.RemoveAll(drainingDir) when a directory was moved aside.
\* Both: atomicSymlink(<data>/live, name of the new live).
LinkLive(h) ==
    /\ hs[h].pc = "linkLive"
    /\ dirs' = IF hs[h].drainingDir # NoName THEN dirDel(dirs, hs[h].drainingDir) ELSE dirs
    /\ links' = [links EXCEPT !.live = IF hs[h].op = "deploy" THEN hs[h].slotName
                                       ELSE slots[hs[h].oldPrev].name]
    /\ hs' = [hs EXCEPT ![h].pc = "linkPrev"]
    /\ UNCHANGED <<orchVars, mu, slots, proxyVars, resp, ops, faults, req>>

\* createStaging(src, commit): a clone of src, or a fresh worktree, at
\* slot-staging. With slot-staging already there, cp -c copies into it and
\* the metadata is rewritten to the commit (APFS), or cp and worktree add
\* both fail and it stays as it was.
createStaging(d, commit) ==
    IF StagingName \in DOMAIN d THEN {d, dirPut(d, StagingName, commit)}
    ELSE {dirPut(d, StagingName, commit)}

\* A promotion that leaves the prev symlink as it was.
linkPrev_skips(h) == links

\* atomicSymlink(<data>/prev, oldLive.name) when there was a live slot.
linkPrev(h) ==
    IF hs[h].oldLive # Nil THEN [links EXCEPT !.prev = slots[hs[h].oldLive].name]
    ELSE links

\* doDeploy: prev symlink, createStaging, journal, 200 success.
DeployFinish(h) ==
    /\ hs[h].pc = "linkPrev"
    /\ hs[h].op = "deploy"
    /\ links' = linkPrev(h)
    /\ dirs' \in createStaging(dirs, hs[h].commit)
    /\ finish(h, 200, TRUE, "")
    /\ slots' = collect(slots, liveSlot, prevSlot, hs')
    /\ UNCHANGED <<liveSlot, prevSlot, lastDeploy, mu, proxyVars, ops, faults, req>>

\* ------------------------------------------------------------- doRollback
\* doRollback, o.deploying set: 409.
RollbackBusy(h) ==
    /\ serves(h)
    /\ mu = Nil
    /\ busy
    /\ resp' = [op |-> "rollback", code |-> 409, success |-> FALSE,
                 error |-> "deploy in progress"]
    /\ UNCHANGED <<orchVars, mu, slots, proxyVars, hs, diskVars, ops, faults, req>>

\* A rollback that takes the deploy lock before it looks for a prev slot.
RollbackNoPrev_locks(h) ==
    /\ serves(h)
    /\ mu = Nil
    /\ ~busy
    /\ prevSlot = Nil
    /\ deploying' = TRUE
    /\ resp' = [op |-> "rollback", code |-> 400, success |-> FALSE,
                 error |-> "no previous slot"]
    /\ UNCHANGED <<liveSlot, prevSlot, lastDeploy, mu, slots, proxyVars, hs, diskVars,
                   ops, faults, req>>

\* doRollback, no prev slot: 400 "no previous slot".
RollbackNoPrev(h) ==
    /\ serves(h)
    /\ mu = Nil
    /\ ~busy
    /\ prevSlot = Nil
    /\ resp' = [op |-> "rollback", code |-> 400, success |-> FALSE,
                 error |-> "no previous slot"]
    /\ UNCHANGED <<orchVars, mu, slots, proxyVars, hs, diskVars, ops, faults, req>>

\* doRollback: take the deploy lock, snapshot oldLive and prev.
RollbackBegin(h) ==
    /\ serves(h)
    /\ mu = Nil
    /\ ~busy
    /\ prevSlot # Nil
    /\ ops < MaxOps
    /\ deploying' = TRUE
    /\ hs' = [hs EXCEPT ![h] = [IdleH EXCEPT !.pc = "prepare", !.op = "rollback",
                                             !.commit = slots[prevSlot].commit,
                                             !.oldLive = liveSlot,
                                             !.oldPrev = prevSlot]]
    /\ ops' = ops + 1
    /\ resp' = NoResp
    /\ UNCHANGED <<liveSlot, prevSlot, lastDeploy, mu, slots, proxyVars, diskVars,
                   faults, req>>

\* findFreePort or cmd.Start() fails (always when prev.dir is gone): 500.
RollbackStartFail(h) ==
    /\ hs[h].pc = "prepare"
    /\ hs[h].op = "rollback"
    /\ LET forced == findFreePort = {} \/ ~exists(slots[hs[h].oldPrev].dir) IN
       /\ forced \/ mayFault
       /\ faults' = IF forced THEN faults ELSE faults + 1
    /\ finish(h, 500, FALSE, "start")
    /\ slots' = collect(slots, liveSlot, prevSlot, hs')
    /\ UNCHANGED <<liveSlot, prevSlot, lastDeploy, mu, proxyVars, diskVars, ops, req>>

\* A rollback that starts the prev slot on the ports it had before.
RollbackStart_reusesPorts(h, appPort, intPort) ==
    /\ hs[h].pc = "prepare"
    /\ hs[h].op = "rollback"
    /\ exists(slots[hs[h].oldPrev].dir)
    /\ freeSlotIds # {}
    /\ <<appPort, intPort>> \in findFreePort
    /\ slots' = [slots EXCEPT ![newSlotId] =
                     startProcess(slots[hs[h].oldPrev].dir, slots[hs[h].oldPrev].commit,
                                  slots[hs[h].oldPrev].appPort,
                                  slots[hs[h].oldPrev].intPort)]
    /\ hs' = [hs EXCEPT ![h].pc = "health", ![h].newSlot = newSlotId]
    /\ UNCHANGED <<orchVars, mu, proxyVars, diskVars, resp, ops, faults, req>>

\* Two fresh ports, startProcess(prev.dir, prev.commit).
RollbackStart(h, appPort, intPort) ==
    /\ hs[h].pc = "prepare"
    /\ hs[h].op = "rollback"
    /\ exists(slots[hs[h].oldPrev].dir)
    /\ freeSlotIds # {}
    /\ <<appPort, intPort>> \in findFreePort
    /\ slots' = [slots EXCEPT ![newSlotId] =
                     startProcess(slots[hs[h].oldPrev].dir, slots[hs[h].oldPrev].commit,
                                  appPort, intPort)]
    /\ hs' = [hs EXCEPT ![h].pc = "health", ![h].newSlot = newSlotId]
    /\ UNCHANGED <<orchVars, mu, proxyVars, diskVars, resp, ops, faults, req>>

\* An unhealthy rollback that gives up its prev slot.
RollbackUnhealthy_dropsPrev(h) ==
    /\ hs[h].pc = "failWait"
    /\ hs[h].op = "rollback"
    /\ slots[hs[h].newSlot].done
    /\ finish(h, 500, FALSE, "health check failed")
    /\ prevSlot' = Nil
    /\ slots' = collect(slots, liveSlot, prevSlot', hs')
    /\ UNCHANGED <<liveSlot, lastDeploy, mu, proxyVars, diskVars, ops, faults, req>>

\* Unhealthy rollback, done has fired: 500 "health check failed".
RollbackUnhealthy(h) ==
    /\ hs[h].pc = "failWait"
    /\ hs[h].op = "rollback"
    /\ slots[hs[h].newSlot].done
    /\ finish(h, 500, FALSE, "health check failed")
    /\ slots' = collect(slots, liveSlot, prevSlot, hs')
    /\ UNCHANGED <<liveSlot, prevSlot, lastDeploy, mu, proxyVars, diskVars, ops, faults, req>>

\* doRollback: prev symlink, createStaging(prev.dir, prev.commit), 200.
RollbackFinish(h) ==
    /\ hs[h].pc = "linkPrev"
    /\ hs[h].op = "rollback"
    /\ links' = linkPrev(h)
    /\ dirs' \in createStaging(dirs, hs[h].commit)
    /\ finish(h, 200, TRUE, "")
    /\ slots' = collect(slots, liveSlot, prevSlot, hs')
    /\ UNCHANGED <<liveSlot, prevSlot, lastDeploy, mu, proxyVars, ops, faults, req>>

\* ------------------------------------------------- cmdStart: stop and start
\* dynamicProxy.shutdown: port 0, the server shut down and dropped.
shutdown(p) == [port |-> 0, srv |-> FALSE]

\* SIGTERM or SIGINT arrives; drainAll snapshots, under o.mu, the live slot
\* and the prev slot if it has a cmd, and starts with the drain of live.
StopBegin ==
    /\ hs[Main].pc = "idle"
    /\ boots < MaxBoots
    /\ mu = Nil
    /\ hs' = [hs EXCEPT ![Main] =
                 [IdleH EXCEPT !.pc = "drain", !.op = "stop",
                               !.oldLive = liveSlot,
                               !.oldPrev = IF prevSlot # Nil /\ slots[prevSlot].cmd
                                           THEN prevSlot ELSE Nil,
                               !.tgt = liveSlot, !.ret = "sdPrev"]]
    /\ UNCHANGED <<orchVars, mu, slots, proxyVars, diskVars, resp, ops, faults, req>>

\* drainAll: the drain of the prev slot of the snapshot.
StopPrev ==
    /\ hs[Main].pc = "sdPrev"
    /\ hs' = [hs EXCEPT ![Main].pc = "drain", ![Main].tgt = hs[Main].oldPrev,
                        ![Main].ret = "sdExit"]
    /\ UNCHANGED <<orchVars, mu, slots, proxyVars, diskVars, resp, ops, faults, req>>

\* What is left of a process once its daemon is gone: it runs in a process
\* group of its own and keeps its ports.
orphaned(sl) ==
    [s \in SlotIds |->
        IF sl[s].proc \in {"running", "orphan"}
        THEN [NoSlot EXCEPT !.proc = "orphan", !.appPort = sl[s].appPort,
                            !.intPort = sl[s].intPort]
        ELSE NoSlot]

\* Both proxies shut down, apiSrv.Shutdown: ListenAndServe returns and the
\* daemon exits, with it every goroutine and all of its memory. The disk
\* and the processes stay.
StopExit ==
    /\ hs[Main].pc = "sdExit"
    /\ deploying' = FALSE
    /\ liveSlot' = Nil
    /\ prevSlot' = Nil
    /\ lastDeploy' = FALSE
    /\ mu' = Nil
    /\ appProxy' = newDynamicProxy
    /\ intProxy' = newDynamicProxy
    /\ slots' = orphaned(slots)
    /\ hs' = [t \in Threads |-> IF t = Main THEN [IdleH EXCEPT !.pc = "exited"] ELSE IdleH]
    /\ resp' = NoResp
    /\ UNCHANGED <<diskVars, ops, faults, req>>

\* A left-behind process ends on its own.
OrphanExit(s) ==
    /\ orphan(s)
    /\ mayFault
    /\ faults' = faults + 1
    /\ slots' = [slots EXCEPT ![s] = NoSlot]
    /\ UNCHANGED <<orchVars, mu, proxyVars, hs, diskVars, resp, ops, req>>

\* The daemon is started again. recoverState returns early: no live symlink;
\* its directory is gone (the symlink is removed); rev-parse, findFreePort
\* or cmd.Start() fails. The prev symlink is not read.
RecoverNone ==
    /\ hs[Main].pc = "exited"
    /\ LET forced == links.live = NoName \/ ~exists(links.live) \/ findFreePort = {} IN
       /\ forced \/ mayFault
       /\ faults' = IF forced THEN faults ELSE faults + 1
    /\ links' = IF links.live # NoName /\ ~exists(links.live)
                 THEN [links EXCEPT !.live = NoName] ELSE links
    /\ hs' = [hs EXCEPT ![Main] = IdleH]
    /\ UNCHANGED <<orchVars, mu, slots, proxyVars, dirs, resp, ops, req>>

\* The daemon is started again. recoverState: the live symlink names a
\* directory; its commit, two fresh ports, startProcess there.
RecoverStart(appPort, intPort) ==
    /\ hs[Main].pc = "exited"
    /\ links.live # NoName
    /\ exists(links.live)
    /\ freeSlotIds # {}
    /\ <<appPort, intPort>> \in findFreePort
    /\ slots' = [slots EXCEPT ![newSlotId] =
                     startProcess(links.live, dirs[links.live], appPort, intPort)]
    /\ hs' = [hs EXCEPT ![Main] = [IdleH EXCEPT !.pc = "health", !.op = "recover",
                                                !.commit = dirs[links.live],
                                                !.slotName = links.live,
                                                !.newSlot = newSlotId]]
    /\ UNCHANGED <<orchVars, mu, proxyVars, diskVars, resp, ops, faults, req>>

\* A recovery that starts the process and leaves o.liveSlot nil.
RecoverLive_forgets ==
    /\ hs[Main].pc = "recLive"
    /\ hs' = [hs EXCEPT ![Main].pc = "setApp"]
    /\ UNCHANGED <<orchVars, mu, slots, proxyVars, diskVars, resp, ops, faults, req>>

\* recoverState, healthy: s.name = target; o.liveSlot = s, written without
\* o.mu; the proxies are retargeted next.
RecoverLive ==
    /\ hs[Main].pc = "recLive"
    /\ slots' = [slots EXCEPT ![hs[Main].newSlot].name = hs[Main].slotName]
    /\ liveSlot' = hs[Main].newSlot
    /\ hs' = [hs EXCEPT ![Main].pc = "setApp"]
    /\ UNCHANGED <<deploying, prevSlot, lastDeploy, mu, proxyVars, diskVars, resp,
                   ops, faults, req>>

\* recoverState, unhealthy: killed, done has fired; on to the prev symlink.
RecoverUnhealthy ==
    /\ hs[Main].pc = "failWait"
    /\ hs[Main].op = "recover"
    /\ slots[hs[Main].newSlot].done
    /\ hs' = [hs EXCEPT ![Main].pc = "recPrev", ![Main].newSlot = Nil]
    /\ slots' = collect(slots, liveSlot, prevSlot, hs')
    /\ UNCHANGED <<orchVars, mu, proxyVars, diskVars, resp, ops, faults, req>>

\* A cold slot whose done is left open.
coldSlot_notDone(name, commit) ==
    [NoSlot EXCEPT !.name = name, !.commit = commit, !.dir = name]

\* A slot that has no process: no cmd, done closed.
coldSlot(name, commit) ==
    [NoSlot EXCEPT !.name = name, !.commit = commit, !.dir = name, !.done = TRUE]

\* recoverState: the prev symlink. Missing: return; its directory gone: the
\* symlink is removed; else o.prevSlot is a cold slot of that directory.
RecoverPrev ==
    /\ hs[Main].pc = "recPrev"
    /\ hs' = [hs EXCEPT ![Main] = IdleH]
    /\ IF links.prev = NoName
       THEN UNCHANGED <<prevSlot, slots, links>>
       ELSE IF ~exists(links.prev)
       THEN /\ links' = [links EXCEPT !.prev = NoName]
            /\ UNCHANGED <<prevSlot, slots>>
       ELSE /\ freeSlotIds # {}
            /\ prevSlot' = newSlotId
            /\ slots' = collect([slots EXCEPT ![newSlotId] =
                                     coldSlot(links.prev, dirs[links.prev])],
                                liveSlot, newSlotId, hs')
            /\ links' = links
    /\ UNCHANGED <<deploying, liveSlot, lastDeploy, mu, proxyVars, dirs, resp, ops,
                   faults, req>>

\* recoverState and the signal handler, with the calls they share with the
\* pipelines; processes left behind.
Daemon ==
    \/ StopBegin
    \/ StopPrev
    \/ StopExit
    \/ RecoverNone
    \/ \E a, i \in Ports : RecoverStart(a, i)
    \/ RecoverLive
    \/ RecoverUnhealthy
    \/ RecoverPrev
    \/ HealthPass(Main)
    \/ HealthRetry(Main)
    \/ HealthFail(Main)
    \/ KillNew(Main)
    \/ SetTargetApp(Main)
    \/ SetTargetInt(Main)
    \/ DrainTerm(Main)
    \/ DrainDone(Main)
    \/ DrainTimeout(Main)
    \/ \E s \in SlotIds : OrphanExit(s)

\* ------------------------------------------------------------ specification
Pipeline(h) ==
    \/ \E c \in Commits : DeployBegin(h, c)
    \/ DeployPrepareFail(h)
    \/ DeployStartFail(h)
    \/ \E a, i \in Ports : DeployStart(h, a, i)
    \/ HealthPass(h)
    \/ HealthRetry(h)
    \/ HealthFail(h)
    \/ KillNew(h)
    \/ DeployUnhealthy(h)
    \/ DeployPanic(h)
    \/ DeployName(h)
    \/ DeployGcRemove(h)
    \/ DeployAside(h)
    \/ DeployPromote(h)
    \/ SetTargetApp(h)
    \/ SetTargetInt(h)
    \/ Switch(h)
    \/ LinkLive(h)
    \/ DeployFinish(h)
    \/ RollbackBegin(h)
    \/ RollbackStartFail(h)
    \/ \E a, i \in Ports : RollbackStart(h, a, i)
    \/ RollbackUnhealthy(h)
    \/ RollbackFinish(h)
    \/ DrainTerm(h)
    \/ DrainDone(h)
    \/ DrainTimeout(h)

Supervisor(s) ==
    \/ ProcessExit(s)
    \/ WatcherLock(s)
    \/ WatcherClearApp(s)
    \/ WatcherClearInt(s)
    \/ WatcherClose(s)

\* A pipeline returned with success: its entry in the history.
succeeded ==
    {[op |-> hs[h].op, commit |-> hs[h].commit] :
        h \in {g \in Handlers : hs[g].pc # "idle" /\ hs'[g].pc = "idle" /\ resp'.success}}

Step ==
    \/ \E h \in Handlers : Pipeline(h)
    \/ \E s \in SlotIds : Supervisor(s)

\* Pipelines, processes and exit watchers.
Next == Step /\ UNCHANGED <<hist, boots, shared, agent>>

Spec == Init /\ [][Next]_vars

\* The exit watcher is a goroutine of its own: once cmd.Wait() has returned
\* it runs to close(s.done), waiting only for o.mu.
watcher(s) ==
    (WatcherLock(s) \/ WatcherClearApp(s) \/ WatcherClearInt(s) \/ WatcherClose(s))
    /\ UNCHANGED <<hist, boots, shared, agent>>

\* A request goroutine that has begun a pipeline runs it to its return,
\* waiting only for o.mu, for done channels and for timers.
proceed(h) == hs[h].pc # "idle" /\ Pipeline(h) /\ UNCHANGED <<hist, boots, shared, agent>>

SpecLive ==
    /\ Spec
    /\ \A s \in SlotIds : WF_vars(watcher(s))
    /\ \A h \in Handlers : WF_vars(proceed(h))

\* Requests the control API turns down before any pipeline work.
Rejected(h) ==
    \/ DeployMissingCommit(h)
    \/ DeployBusy(h)
    \/ RollbackBusy(h)
    \/ RollbackNoPrev(h)

\* The same, with the requests the control API rejects.
NextApi ==
    \/ Step /\ UNCHANGED <<hist, boots, shared, agent>>
    \/ \E h \in Handlers : Rejected(h) /\ UNCHANGED <<hist, boots, shared, agent>>

SpecApi == Init /\ [][NextApi]_vars

\* The same as Spec, with the daemon stopped by a signal and started again,
\* and with the history of successful operations kept.
NextDaemon ==
    \/ /\ Step
       /\ hist' = IF succeeded = {} THEN hist
                   ELSE Append(hist, CHOOSE e \in succeeded : TRUE)
       /\ UNCHANGED <<boots, shared, agent>>
    \/ /\ Daemon
       /\ boots' = IF hs[Main].pc = "exited" THEN boots + 1 ELSE boots
       /\ UNCHANGED <<hist, shared, agent>>

SpecDaemon == Init /\ [][NextDaemon]_vars

\* --------------------------------------------- a client of the public port
\* What the client gets: the answer, or a reset when the server closed the
\* connection under the handler.  deployed remembers whether the request was
\* made after a deploy had succeeded.
reply(r, a) ==
    [NoReq EXCEPT !.answer = IF r.conn = "closed" THEN "reset" ELSE a,
                  !.deployed = r.deployed]

\* The process an upstream port leads to, if one is listening there.
upstream(port) == {s \in SlotIds : running(s) /\ slots[s].appPort = port}

\* strings.HasPrefix on paths.
HasPrefix(path, prefix) ==
    /\ Len(path) >= Len(prefix)
    /\ SubSeq(path, 1, Len(prefix)) = prefix

\* p.intercept of the public proxy: the agent service is configured.
intercept == TRUE

\* serveHTTP's test: the path begins with /agent/ or is /chat.
intercepted(path) ==
    intercept /\ (HasPrefix(path, <<"/", "agent", "/">>) \/ path = <<"/", "chat">>)

\* TCP connect to config.Port: refused unless setTarget has a server listening.
ProxyDial(path) ==
    /\ req.pc = "idle"
    /\ req' = IF appProxy.srv
              THEN [NoReq EXCEPT !.pc = "accepted", !.conn = "open",
                                 !.deployed = lastDeploy, !.path = path]
              ELSE [NoReq EXCEPT !.answer = "refused", !.deployed = lastDeploy]
    /\ UNCHANGED <<orchVars, mu, slots, proxyVars, hs, diskVars, resp, ops, faults>>

\* serveHTTP: an intercepted path goes to p.intercept.ServeHTTP.
ProxyIntercept ==
    /\ req.pc = "accepted"
    /\ intercepted(req.path)
    /\ req' = [req EXCEPT !.pc = "agent"]
    /\ UNCHANGED <<orchVars, mu, slots, proxyVars, hs, diskVars, resp, ops, faults>>

\* serveHTTP: read p.port under the read lock; 0 is a 503 "no live slot".
ProxyServe ==
    /\ req.pc = "accepted"
    /\ ~intercepted(req.path)
    /\ req' = IF appProxy.port = 0 THEN reply(req, "503")
              ELSE [req EXCEPT !.pc = "forward", !.port = appProxy.port]
    /\ UNCHANGED <<orchVars, mu, slots, proxyVars, hs, diskVars, resp, ops, faults>>

\* serveHTTP: httputil.ReverseProxy to 127.0.0.1:port; 502 when nothing
\* listens there.
ProxyForward ==
    /\ req.pc = "forward"
    /\ req' = reply(req, IF upstream(req.port) # {} THEN "app" ELSE "502")
    /\ UNCHANGED <<orchVars, mu, slots, proxyVars, hs, diskVars, resp, ops, faults>>

\* A client that asks for a path of the app.
serveHTTP ==
    \/ ProxyDial(AppPath)
    \/ ProxyServe
    \/ ProxyForward

\* Pipelines, processes, exit watchers and a client of the public port.
NextProxy ==
    \/ Step /\ UNCHANGED <<hist, boots, shared, agent>>
    \/ serveHTTP /\ UNCHANGED <<hist, boots, shared, agent>>

SpecProxy == Init /\ [][NextProxy]_vars

\* agentService.ServeHTTP for anything but a stream: the chat page, the
\* conversations, a 404: answered at once.
AgentServe ==
    /\ req.pc = "agent"
    /\ req.path # StreamPath
    /\ req' = reply(req, "agent")
    /\ UNCHANGED <<orchVars, mu, slots, proxyVars, hs, diskVars, resp, ops, faults>>

\* handleStream: the agent process is spawned, the SSE headers are flushed;
\* since remembers how many pipelines had begun by then.
StreamStart ==
    /\ req.pc = "agent"
    /\ req.path = StreamPath
    /\ req' = [req EXCEPT !.pc = "stream", !.since = ops]
    /\ UNCHANGED <<orchVars, mu, slots, proxyVars, hs, diskVars, resp, ops, faults>>

\* streamAgentOutput: the agent process ends on its own; the stream is
\* complete and handleStream returns.
StreamEnd ==
    /\ req.pc = "stream"
    /\ req.conn = "open"
    /\ req' = reply(req, "agent")
    /\ UNCHANGED <<orchVars, mu, slots, proxyVars, hs, diskVars, resp, ops, faults>>

\* streamAgentOutput: r.Context() is done, the connection is gone: the agent
\* process is killed.
StreamAbort ==
    /\ req.pc = "stream"
    /\ req.conn = "closed"
    /\ req' = reply(req, "agent")
    /\ UNCHANGED <<orchVars, mu, slots, proxyVars, hs, diskVars, resp, ops, faults>>

\* A client that asks for any path, the agent's among them.
route ==
    \/ \E path \in Paths : ProxyDial(path)
    \/ ProxyIntercept
    \/ ProxyServe
    \/ ProxyForward
    \/ AgentServe
    \/ StreamStart
    \/ StreamEnd
    \/ StreamAbort

\* Pipelines, processes, exit watchers and a client of the public port that
\* asks for the paths of the app and of the agent service.
NextRoute ==
    \/ Step /\ UNCHANGED <<hist, boots, shared, agent>>
    \/ route /\ UNCHANGED <<hist, boots, shared, agent>>

SpecRoute == Init /\ [][NextRoute]_vars

\* The same, with the history of successful operations kept.
NextSeq ==
    /\ Step
    /\ hist' = IF succeeded = {} THEN hist ELSE Append(hist, CHOOSE e \in succeeded : TRUE)
    /\ UNCHANGED <<boots, shared, agent>>

SpecSeq == Init /\ [][NextSeq]_vars

\* The daemon as constructed, with room for a sequence of SeqOps pipelines.
InitSeq ==
    /\ deploying = FALSE
    /\ liveSlot = Nil
    /\ prevSlot = Nil
    /\ lastDeploy = FALSE
    /\ mu = Nil
    /\ slots = [s \in SlotIds |-> NoSlot]
    /\ appProxy = newDynamicProxy
    /\ intProxy = newDynamicProxy
    /\ hs = [h \in Threads |-> IdleH]
    /\ dirs = [n \in {} |-> << >>]
    /\ links = [live |-> NoName, prev |-> NoName]
    /\ resp = NoResp
    /\ ops = MaxOps - SeqOps
    /\ faults = 0
    /\ hist = << >>
    /\ boots = 0
    /\ req = NoReq
    /\ shared = NoShared
    /\ agent = NoAgent

SpecLong == InitSeq /\ [][NextSeq]_vars

\* ------------------------------------------------------------- shared_dirs
\* One entry in shared_dirs.  shared.tree is what a checkout of the
\* repository has at that path, shared.repo the canonical directory under
\* repoDir, shared.at[d] what worktree d has at the path.
SeedFile == "seed.db"
AppFile  == "app.db"

\* git checkout --force --detach in a worktree: the tracked files are written
\* again, in a directory of the worktree's own when a symlink stood in
\* their place; an untracked path is left as it is.
gitCheckout(sh, slotDir) ==
    IF sh.tree.kind = "dir"
    THEN [sh EXCEPT !.at[slotDir] =
              Dir(sh.tree.files \cup (IF @.kind = "dir" THEN @.files ELSE {}))]
    ELSE sh

\* git worktree add --detach: a new checkout.
worktreeAdd(sh, slotDir) == [sh EXCEPT !.at = dirPut(@, slotDir, sh.tree)]

\* prepareSlot(slotDir, commit): checkout in place when slotDir/.git is there,
\* a new worktree otherwise.  It does not call applySharedDirs.
prepareSlot(sh, slotDir) ==
    IF slotDir \in DOMAIN sh.at THEN gitCheckout(sh, slotDir)
    ELSE worktreeAdd(sh, slotDir)

\* promoteStaging: os.Rename(oldDir, newDir).
promoteStaging(sh, oldDir, newDir) == [sh EXCEPT !.at = dirRename(@, oldDir, newDir)]

\* applySharedDirs(slotDir): MkdirAll(target), RemoveAll(slotPath),
\* Symlink(absTarget, slotPath).
applySharedDirs(sh, slotDir) ==
    [sh EXCEPT !.repo = IF @.kind = "none" THEN Dir({}) ELSE @,
               !.at = dirPut(@, slotDir, Symlink)]

\* createStaging before applySharedDirs: cp -R of srcDir (a symlink is copied
\* as a symlink), or the fallback worktree; with slot-staging there already
\* both may leave it as it was.
stagingCopies(sh, srcDir) ==
    {worktreeAdd(sh, StagingName)}
    \cup (IF srcDir \in DOMAIN sh.at
          THEN {[sh EXCEPT !.at = dirPut(@, StagingName, sh.at[srcDir])]} ELSE {})
    \cup (IF StagingName \in DOMAIN sh.at THEN {sh} ELSE {})

\* createStaging(srcDir, commit) ends with applySharedDirs(dstDir) on both paths.
createStagingShared(sh, srcDir) ==
    {applySharedDirs(c, StagingName) : c \in stagingCopies(sh, srcDir)}

\* The directory createStaging clones: slotDir (doDeploy), prev.dir (doRollback).
stagingSrc(h) == IF hs[h].op = "deploy" THEN hs[h].slotName ELSE slots[hs[h].oldPrev].dir

\* prepareSlot returned nil in this step of h.
prepared(h) == hs[h].pc = "prepare" /\ hs[h].op = "deploy" /\ resp'.error # "prepare"

\* createStaging ran in this step of h.
staged(h) == hs[h].pc = "linkPrev" /\ hs'[h].pc = "idle"

\* The worktree calls in the step h takes, at the shared path.
sharedStep(h) ==
    CASE prepared(h) -> {prepareSlot(shared, StagingName)}
      [] hs[h].pc = "gcRemove" ->
            {[shared EXCEPT !.at = removeWorktree(@, slots[hs[h].oldPrev].dir)]}
      [] hs[h].pc = "aside" /\ exists(hs[h].slotName) ->
            {[shared EXCEPT !.at = dirRename(dirDel(@, drainingOf(hs[h].slotName)),
                                             hs[h].slotName, drainingOf(hs[h].slotName))]}
      [] hs[h].pc = "promote" -> {promoteStaging(shared, StagingName, hs[h].slotName)}
      [] hs[h].pc = "linkLive" /\ hs[h].drainingDir # NoName ->
            {[shared EXCEPT !.at = dirDel(@, hs[h].drainingDir)]}
      [] staged(h) -> createStagingShared(shared, stagingSrc(h))
      [] OTHER -> {shared}

\* The live app writes a file at its shared path: through the symlink into
\* the canonical directory, or into a directory of its own worktree (which
\* it makes when the checkout has none).
AppWrite(s) ==
    /\ liveSlot = s
    /\ running(s)
    /\ slots[s].dir \in DOMAIN shared.at
    /\ LET x == shared.at[slots[s].dir] IN
         \/ /\ x.kind # "link"
            /\ AppFile \notin x.files
            /\ shared' = [shared EXCEPT !.at[slots[s].dir] = Dir(x.files \cup {AppFile})]
         \/ /\ x.kind = "link"
            /\ shared.repo.kind = "dir"
            /\ AppFile \notin shared.repo.files
            /\ shared' = [shared EXCEPT !.repo = Dir(@.files \cup {AppFile})]
    /\ UNCHANGED <<orchVars, mu, slots, proxyVars, hs, diskVars, resp, ops, faults,
                   hist, boots, req, agent>>

\* What a slot's app reads at the shared path.
sees(s) ==
    LET x == shared.at[slots[s].dir] IN
    IF x.kind = "link" THEN shared.repo ELSE x

\* shared_dirs configured: the repository tracks a seed file at the path or
\* nothing, and the canonical directory is absent or has the seed.
InitShared ==
    /\ deploying = FALSE
    /\ liveSlot = Nil
    /\ prevSlot = Nil
    /\ lastDeploy = FALSE
    /\ mu = Nil
    /\ slots = [s \in SlotIds |-> NoSlot]
    /\ appProxy = newDynamicProxy
    /\ intProxy = newDynamicProxy
    /\ hs = [h \in Threads |-> IdleH]
    /\ dirs = [n \in {} |-> << >>]
    /\ links = [live |-> NoName, prev |-> NoName]
    /\ resp = NoResp
    /\ ops = 0
    /\ faults = 0
    /\ hist = << >>
    /\ boots = 0
    /\ req = NoReq
    /\ agent = NoAgent
    /\ shared \in {[tree |-> t, repo |-> r, at |-> [n \in {} |-> Absent]] :
                      t \in {Absent, Dir({SeedFile})},
                      r \in {Absent, Dir({SeedFile})}}

\* Pipelines, processes and exit watchers, with the worktree calls followed
\* at the shared path, and the live app writing there.
NextShared ==
    \/ /\ Step
       /\ \/ \E h \in Handlers : hs'[h] # hs[h] /\ shared' \in sharedStep(h)
          \/ hs' = hs /\ shared' = shared
       /\ UNCHANGED <<hist, boots, agent>>
    \/ \E s \in SlotIds : AppWrite(s)

SpecShared == InitShared /\ [][NextShared]_vars

\* ------------------------------------------------------------ agentService
\* handleStream's test under a.mu: is there a session for the conversation?
\* The conversation exists and has a user message (the store is not modelled).
sessionRunning_never(c) == FALSE

sessionRunning(c) == c \in agent.sessions

\* GET /agent/conversations/c/stream reaches handleStream; the store has the
\* conversation and its last user message.
StreamRequest(g, c) ==
    /\ agent.st[g].pc = "idle"
    /\ agent' = [agent EXCEPT !.st[g] = [pc |-> "lock", conv |-> c, code |-> 0]]

\* Under a.mu: a session is there, 409 "agent already running".
StreamReject(g) ==
    /\ agent.st[g].pc = "lock"
    /\ sessionRunning(agent.st[g].conv)
    /\ agent' = [agent EXCEPT !.st[g].pc = "idle", !.st[g].code = 409]

\* Under a.mu: no session, a.sessions[convID] = session.
StreamRegister(g) ==
    /\ agent.st[g].pc = "lock"
    /\ ~sessionRunning(agent.st[g].conv)
    /\ agent' = [agent EXCEPT !.st[g].pc = "spawn",
                              !.sessions = @ \cup {agent.st[g].conv}]

\* StdoutPipe or cmd.Start fails, or the writer cannot flush (the process is
\* killed and waited for): 500, and the deferred delete(a.sessions, convID).
SpawnFail(g) ==
    /\ agent.st[g].pc = "spawn"
    /\ agent' = [agent EXCEPT !.st[g].pc = "idle", !.st[g].code = 500,
                              !.sessions = @ \ {agent.st[g].conv}]

\* cmd.Start(): the agent process runs; 200 and the SSE headers are flushed.
Spawn(g) ==
    /\ agent.st[g].pc = "spawn"
    /\ agent' = [agent EXCEPT !.st[g].pc = "stream", !.st[g].code = 200,
                              !.procs[agent.st[g].conv] = @ + 1]

\* The agent process ends (on its own, or killed by handleCancel, which
\* found the session): cmd.Wait() returns, close(done).
AgentExit(g) ==
    /\ agent.st[g].pc = "stream"
    /\ agent' = [agent EXCEPT !.st[g].pc = "done",
                              !.procs[agent.st[g].conv] = @ - 1]

\* r.Context().Done(): cmd.Process.Kill(), cmd.Wait().
ClientGone(g) ==
    /\ agent.st[g].pc = "stream"
    /\ agent' = [agent EXCEPT !.st[g].pc = "killed",
                              !.procs[agent.st[g].conv] = @ - 1]

\* handleStream returns: the deferred delete(a.sessions, convID) under a.mu,
\* close(session.done).
StreamReturn(g) ==
    /\ agent.st[g].pc \in {"done", "killed"}
    /\ agent' = [agent EXCEPT !.st[g].pc = "idle",
                              !.sessions = @ \ {agent.st[g].conv}]

handleStream(g) ==
    \/ \E c \in Convs : StreamRequest(g, c)
    \/ StreamReject(g)
    \/ StreamRegister(g)
    \/ SpawnFail(g)
    \/ Spawn(g)
    \/ AgentExit(g)
    \/ ClientGone(g)
    \/ StreamReturn(g)

\* Stream requests served by the agent service, the orchestrator at rest.
NextAgent ==
    /\ \E g \in Streams : handleStream(g)
    /\ UNCHANGED <<orchVars, mu, slots, proxyVars, hs, diskVars, resp, ops, faults,
                   hist, boots, req, shared>>

SpecAgent == Init /\ [][NextAgent]_vars

\* handleStatus: what GET /status reports, read under o.mu.
handleStatus ==
    [live_slot       |-> IF liveSlot # Nil THEN slots[liveSlot].name ELSE NoName,
     live_commit     |-> IF liveSlot # Nil THEN slots[liveSlot].commit ELSE << >>,
     healthy         |-> IF liveSlot # Nil THEN slots[liveSlot].alive ELSE FALSE,
     previous_slot   |-> IF prevSlot # Nil THEN slots[prevSlot].name ELSE NoName,
     previous_commit |-> IF prevSlot # Nil THEN slots[prevSlot].commit ELSE << >>,
     staging_dir     |-> StagingName,
     last_deploy_set |-> lastDeploy]

TypeOK ==
    /\ deploying \in BOOLEAN
    /\ liveSlot \in SlotIds \cup {Nil}
    /\ prevSlot \in SlotIds \cup {Nil}
    /\ mu \in SlotIds \cup {Nil}
    /\ \A h \in Handlers : hs[h].pc \in
         {"idle", "prepare", "health", "healthy", "unhealthy", "failWait", "drain",
          "drainWait", "drainKilled", "gcRemove", "aside", "promote", "setApp",
          "setInt", "switch", "linkLive", "linkPrev"}

\* ============================================================== properties
active == {h \in Handlers : hs[h].pc # "idle"}
slotCommit(s) == IF s = Nil THEN << >> ELSE slots[s].commit

\* C1: at most one deploy or rollback pipeline runs at any time; a deploy or
\* rollback request that arrives while deploying is set is answered 409 and
\* starts no pipeline work.
C1_OnePipeline ==
    [][/\ Cardinality({h \in Handlers : hs'[h].pc # "idle"}) <= 1
       /\ deploying =>
            /\ \A h \in Handlers : hs[h].pc = "idle" => hs'[h] = hs[h]
            /\ ops' = ops
       /\ (deploying /\ resp' # resp /\ hs' = hs /\ resp'.error # "missing commit") =>
            /\ resp'.code = 409
            /\ UNCHANGED <<orchVars, slots, proxyVars, diskVars>>]_vars

C1_Witness ==
    /\ deploying
    /\ active # {}
    /\ resp.code = 409

\* C2: from the spawn of a deploy's new process until the proxy is
\* retargeted, the old live process is sent no termination signal and, while
\* it is alive, the public proxy routes to its port.
beforeRetarget(h) ==
    /\ hs[h].op = "deploy"
    /\ hs[h].newSlot # Nil
    /\ hs[h].pc \in {"health", "healthy", "unhealthy", "failWait", "drain", "drainWait",
                     "drainKilled", "gcRemove", "aside", "promote", "setApp"}
    /\ liveSlot = hs[h].oldLive
    /\ hs[h].oldLive # Nil

C2_StartBeforeDrain ==
    \A h \in Handlers : beforeRetarget(h) =>
        /\ slots[hs[h].oldLive].sig = "none"
        /\ slots[hs[h].oldLive].alive => appProxy.port = slots[hs[h].oldLive].appPort

\* C2, the part about signals alone.
C2_NoSignal ==
    \A h \in Handlers : beforeRetarget(h) => slots[hs[h].oldLive].sig = "none"

C2_Witness ==
    \E h \in Handlers :
        /\ beforeRetarget(h)
        /\ hs[h].pc = "setApp"
        /\ running(hs[h].oldLive)
        /\ running(hs[h].newSlot)
        /\ appProxy.port = slots[hs[h].oldLive].appPort

\* C3: during and after a successful deploy every request to the public
\* port is answered by the app or with a 503 of the proxy, never refused.
answered == req' # req /\ req'.pc = "idle"

C3_NeverRefused ==
    req.deployed => req.answer \in {"none", "app", "503"}

\* C3 as the code has it: a connection is refused exactly when the proxy has
\* no target (clearTarget closes the listener, setTarget reopens it); one that
\* was accepted is answered by the app, with a 503 or 502 of the proxy, or is
\* dropped by a clearTarget in between.
C3_RefusedIffNoTarget ==
    [][/\ appProxy'.srv <=> appProxy'.port > 0
       /\ (req.pc = "idle" /\ req' # req) =>
             (req'.answer = "refused" <=> appProxy.port = 0)
       /\ (req.pc # "idle" /\ answered) =>
             req'.answer \in {"app", "503", "502", "reset"}]_vars

C3_Witness ==
    /\ req.deployed
    /\ liveSlot # Nil
    /\ req.answer = "refused"

\* C4: once a promotion has set the proxy target to the new slot, the exit
\* watcher of the old live never clears it.
retargeted(h) ==
    /\ hs[h].pc \in {"setInt", "switch", "drain", "drainWait", "drainKilled",
                      "linkLive", "linkPrev"}
    /\ hs[h].oldLive # Nil
    /\ appProxy.port = slots[hs[h].newSlot].appPort

C4_NoClearAfterRetarget ==
    [][\A h \in Handlers :
         (retargeted(h) /\ slots[hs[h].oldLive].proc = "clearApp")
             => appProxy' = appProxy]_vars

\* C5: a deploy whose health check failed leaves o.liveSlot and o.prevSlot,
\* and the commits GET /status reports, as they were when it began.
failedDeploy(h) == hs[h].op = "deploy" /\ hs[h].pc = "failWait" /\ hs'[h].pc = "idle"

C5_FailedDeployKeepsState ==
    [][\A h \in Handlers :
         /\ (hs[h].op = "deploy" /\ hs[h].pc \in {"health", "unhealthy", "failWait"}) =>
               /\ liveSlot = hs[h].oldLive
               /\ prevSlot = hs[h].oldPrev
         /\ failedDeploy(h) =>
               /\ liveSlot' = hs[h].oldLive
               /\ prevSlot' = hs[h].oldPrev
               /\ handleStatus'.live_commit = slotCommit(hs[h].oldLive)
               /\ handleStatus'.previous_commit = slotCommit(hs[h].oldPrev)]_vars

C5_Witness ==
    /\ ~deploying
    /\ resp = [op |-> "deploy", code |-> 200, success |-> FALSE, error |-> ""]
    /\ liveSlot # Nil
    /\ prevSlot # Nil
    /\ slotCommit(liveSlot) # slotCommit(prevSlot)

\* C6: after a failed health check the new process is killed and the
\* pipeline answers only once done has fired: 200 with success false, the
\* rejected process gone.
C6_KillThenAnswer ==
    [][\A h \in Handlers : hs[h].op = "deploy" =>
         /\ (hs[h].pc = "health" /\ hs'[h].pc \notin {"health", "healthy"}) =>
               hs'[h].pc = "unhealthy"
         /\ (hs[h].pc = "unhealthy" /\ hs'[h] # hs[h]) =>
               /\ hs'[h].pc = "failWait"
               /\ slots'[hs[h].newSlot].proc # "running"
         /\ (hs[h].pc = "failWait" /\ hs'[h] # hs[h]) =>
               /\ hs'[h].pc = "idle"
               /\ slots[hs[h].newSlot].done
               /\ slots[hs[h].newSlot].proc = "reaped"
               /\ resp' = [op |-> "deploy", code |-> 200, success |-> FALSE, error |-> ""]]_vars

C6_Witness ==
    /\ ~deploying
    /\ resp = [op |-> "deploy", code |-> 200, success |-> FALSE, error |-> ""]
    /\ liveSlot # Nil
    /\ running(liveSlot)
    /\ \A s \in SlotIds : s # liveSlot => ~running(s)

\* C7: from the empty state, after N successful deploys of pairwise distinct
\* commits the status reports the last as live and the one before as
\* previous (none when N = 1).
distinctDeploys ==
    /\ \A i \in 1..Len(hist) : hist[i].op = "deploy"
    /\ \A i, j \in 1..Len(hist) : i # j => hist[i].commit # hist[j].commit

C7_DeploySequence ==
    (~deploying /\ hist # << >> /\ distinctDeploys) =>
        /\ handleStatus.live_commit = hist[Len(hist)].commit
        /\ handleStatus.previous_commit =
              IF Len(hist) = 1 THEN << >> ELSE hist[Len(hist) - 1].commit

C7_Witness ==
    /\ ~deploying
    /\ distinctDeploys
    /\ Len(hist) = 3
    /\ handleStatus.previous_commit = hist[2].commit

\* C8: after Deploy(A), Deploy(B), Rollback the status reports A as live and
\* B as previous, and a process started by the rollback gets the proxy
\* traffic for as long as it is alive.
deployDeployRollback ==
    /\ ~deploying
    /\ Len(hist) = 3
    /\ hist[1].op = "deploy" /\ hist[2].op = "deploy" /\ hist[3].op = "rollback"
    /\ hist[1].commit # hist[2].commit

C8_RollbackSwaps ==
    deployDeployRollback =>
        /\ handleStatus.live_commit = hist[1].commit
        /\ handleStatus.previous_commit = hist[2].commit
        /\ slots[liveSlot].alive => /\ appProxy.port = slots[liveSlot].appPort
                                    /\ intProxy.port = slots[liveSlot].intPort

\* C8, the part about the commits alone.
C8_Commits ==
    deployDeployRollback =>
        /\ handleStatus.live_commit = hist[1].commit
        /\ handleStatus.previous_commit = hist[2].commit

\* C9: after Deploy(A), Deploy(B), Deploy(A) the status reports A as live and
\* B as previous.
deployABA ==
    /\ ~deploying
    /\ Len(hist) = 3
    /\ \A i \in 1..3 : hist[i].op = "deploy"
    /\ hist[1].commit = hist[3].commit
    /\ hist[1].commit # hist[2].commit

C9_RedeployKeepsPrior ==
    deployABA =>
        /\ handleStatus.live_commit = hist[1].commit
        /\ handleStatus.previous_commit = hist[2].commit

C9_Witness ==
    /\ deployABA
    /\ handleStatus.live_commit = CommitA
    /\ handleStatus.previous_commit = CommitB

\* C10: whenever live and prev both exist, their commits differ.
C10_PrevDiffersFromLive ==
    (liveSlot # Nil /\ prevSlot # Nil) => slotCommit(prevSlot) # slotCommit(liveSlot)

\* C10 as the code has it: a promotion makes the old live prev, whatever its
\* commit, so prev and live have the same commit exactly after a promotion
\* of the commit that was live already.
C10_PrevIsOldLive ==
    [][\A h \in Handlers :
         (hs[h].pc = "switch" /\ hs'[h].pc # "switch") =>
             /\ prevSlot' = hs[h].oldLive
             /\ handleStatus'.live_commit = hs[h].commit
             /\ hs[h].oldLive # Nil =>
                   (handleStatus'.previous_commit = handleStatus'.live_commit
                      <=> slotCommit(hs[h].oldLive) = hs[h].commit)]_vars

C10_Witness ==
    /\ liveSlot # Nil
    /\ prevSlot # Nil
    /\ ~deploying
    /\ slotCommit(prevSlot) = slotCommit(liveSlot)

\* C11: when the process of the live slot has exited, its exit watcher sets
\* alive = false and clears the target of both proxies; from then on GET
\* /status reports healthy = false for as long as that slot is live; and the
\* watcher does get there unless another slot is promoted first.
C11_CrashDetected ==
    /\ [][\A s \in SlotIds :
            /\ (slots[s].proc = "exited" /\ slots'[s].proc # "exited" /\ liveSlot = s) =>
                  /\ ~slots'[s].alive
                  /\ slots'[s].proc = "clearApp"
            /\ (slots[s].proc = "clearApp" /\ slots'[s].proc # "clearApp") =>
                  /\ appProxy'.port = 0
                  /\ slots'[s].proc = "clearInt"
            /\ (slots[s].proc = "clearInt" /\ slots'[s].proc # "clearInt") =>
                  intProxy'.port = 0
            /\ (liveSlot = s /\ ~handleStatus.healthy /\ liveSlot' = s) =>
                  ~handleStatus'.healthy]_vars
    /\ \A s \in SlotIds :
          (liveSlot = s /\ slots[s].proc = "exited")
              ~> (liveSlot # s \/ (slots[s].done /\ ~handleStatus.healthy))

C11_Witness ==
    /\ lastDeploy
    /\ liveSlot # Nil
    /\ slots[liveSlot].done
    /\ ~handleStatus.healthy
    /\ appProxy.port = 0
    /\ intProxy.port = 0

\* C12: drain of a slot with a process sends SIGTERM, sends SIGKILL only when
\* the timeout comes before done, and returns only once done has fired; a
\* process that ignores SIGTERM is therefore killed, and the promotion that
\* drains the old live still ends with success.
draining(h) == hs[h].pc \in {"drain", "drainWait", "drainKilled"}

C12_Drain ==
    /\ [][\A h \in Handlers :
            /\ (hs[h].pc = "drain" /\ hs[h].tgt # Nil /\ hs'[h] # hs[h]) =>
                  IF slots[hs[h].tgt].cmd
                  THEN /\ hs'[h].pc = "drainWait"
                       /\ running(hs[h].tgt) => slots'[hs[h].tgt].sig = "TERM"
                  ELSE hs'[h].pc = hs[h].ret /\ slots' = slots
            /\ (draining(h) /\ hs[h].tgt # Nil /\ slots[hs[h].tgt].sig # "KILL"
                    /\ slots'[hs[h].tgt].sig = "KILL") =>
                  (hs[h].pc = "drainWait" /\ hs'[h].pc = "drainKilled")
            /\ (hs[h].pc = "drainWait" /\ hs'[h].pc = "drainKilled") =>
                  slots'[hs[h].tgt].proc # "running"
            /\ (hs[h].pc \in {"drainWait", "drainKilled"} /\ ~draining(h)') =>
                  /\ slots[hs[h].tgt].done
                  /\ hs'[h].pc = hs[h].ret
            /\ (hs[h].pc \in {"linkLive", "linkPrev"} /\ hs'[h].pc = "idle") =>
                  /\ resp'.code = 200
                  /\ resp'.success]_vars
    /\ \A h \in Handlers :
          (draining(h) /\ hs[h].ret = "linkLive")
              ~> (hs[h].pc = "idle" /\ resp.code = 200 /\ resp.success)

C12_Witness ==
    \E h \in Handlers :
        /\ hs[h].pc = "drainKilled"
        /\ hs[h].ret = "linkLive"
        /\ slots[hs[h].tgt].sig = "KILL"

\* C13: the health check always returns; it returns true only on a poll,
\* made before the deadline, that a running process answered, and false only
\* once done has fired or the deadline has passed.
C13_HealthCheck ==
    /\ [][\A h \in Handlers :
            (hs[h].pc = "health" /\ hs'[h].pc # "health") =>
                IF hs'[h].pc \in {"healthy", "setApp"}
                THEN /\ running(hs[h].newSlot)
                     /\ hs[h].probes < MaxProbes
                     /\ ~slots[hs[h].newSlot].done
                ELSE /\ hs'[h].pc = "unhealthy"
                     /\ slots[hs[h].newSlot].done \/ hs[h].probes = MaxProbes]_vars
    /\ \A h \in Handlers : (hs[h].pc = "health") ~> (hs[h].pc # "health")

C13_Witness ==
    \E h \in Handlers :
        /\ hs[h].pc = "unhealthy"
        /\ running(hs[h].newSlot)
        /\ ~slots[hs[h].newSlot].done

\* C14: once the daemon has handled a stop signal and exited, no process it
\* spawned is left running.
C14_NoOrphans == \A s \in SlotIds : ~orphan(s)

\* C14, the part about the slots drainAll takes: the live and the prev slot
\* of its snapshot have exited, done fired, when the daemon exits.
C14_SnapshotDrained ==
    [][(hs[Main].pc = "sdExit" /\ hs'[Main].pc = "exited") =>
          \A s \in {hs[Main].oldLive, hs[Main].oldPrev} \ {Nil} : slots[s].done]_vars

\* C15: the daemon is stopped by a signal with every pipeline it began
\* finished with success, and started again; with no fault of the environment,
\* at the end of recoverState the status reports the commit of the last
\* successful operation as live, its slot has a process started by the
\* recovery, and the public proxy routes to that process.
recovers ==
    /\ hs[Main].pc \in {"exited", "recPrev"}
    /\ hs'[Main].pc = "idle"
    /\ hist # << >>
    /\ Len(hist) = ops
    /\ faults' = 0

C15_RestartRecoversLive ==
    [][recovers =>
          /\ hs[Main].pc = "recPrev"
          /\ liveSlot' # Nil
          /\ handleStatus'.live_commit = hist[Len(hist)].commit
          /\ handleStatus'.healthy
          /\ slots'[liveSlot'].proc = "running"
          /\ slots'[liveSlot'].dir = links'.live
          /\ appProxy' = [port |-> slots'[liveSlot'].appPort, srv |-> TRUE]]_vars

C15_Witness ==
    /\ boots = 1
    /\ hs[Main].pc = "idle"
    /\ hist = <<[op |-> "deploy", commit |-> CommitA]>>
    /\ ops = 1
    /\ faults = 0
    /\ handleStatus.live_commit = CommitA
    /\ running(liveSlot)
    /\ appProxy.port = slots[liveSlot].appPort

\* C16: a recovery that finds a valid live symlink and ends without a live
\* slot leaves no process of its attempt running, and still makes o.prevSlot
\* a cold slot (no cmd, done closed) of the directory a valid prev symlink
\* names.
validLink(l) == l # NoName /\ exists(l)

builtColdPrev ==
    validLink(links.prev) =>
        /\ prevSlot' # Nil
        /\ slots'[prevSlot'] = coldSlot(links.prev, dirs[links.prev])

C16_FailedRecoveryKeepsPrev ==
    [][(hs[Main].pc \in {"exited", "recPrev"} /\ hs'[Main].pc = "idle"
          /\ validLink(links.live) /\ liveSlot' = Nil) =>
          /\ \A s \in SlotIds : ~running(s)'
          /\ builtColdPrev]_vars

\* C16, the part about a recovery whose process was spawned and failed the
\* health check.
C16_UnhealthyRecoveryKeepsPrev ==
    [][(hs[Main].pc = "recPrev" /\ hs'[Main].pc = "idle" /\ liveSlot' = Nil) =>
          /\ \A s \in SlotIds : ~running(s)'
          /\ builtColdPrev]_vars

C16_Witness ==
    \E h \in Handlers :
        /\ boots = 1
        /\ hs[h].op = "rollback"
        /\ hs[h].pc = "linkLive"
        /\ hs[h].oldLive = Nil
        /\ ~slots[hs[h].oldPrev].cmd
        /\ running(liveSlot)

\* C17: a request turned down on a precondition (400 for a deploy without a
\* commit and for a rollback without a prev slot, 409 while a pipeline runs)
\* changes nothing: live, prev, the deploying flag, both proxies, the disk,
\* the processes and the running pipeline stay as they were; and no rollback
\* begins without a prev slot.
rejected == resp' # resp /\ resp'.code \in {400, 409}

C17_RejectionChangesNothing ==
    [][/\ rejected =>
            /\ UNCHANGED <<orchVars, mu, slots, proxyVars, diskVars, hs, ops>>
            /\ resp'.code = 409 => deploying
            /\ ~resp'.success
            /\ resp'.error = "no previous slot" => (prevSlot = Nil /\ ~deploying)
            /\ resp'.code = 400 =>
                  (resp'.error = "missing commit" /\ resp'.op = "deploy")
                  \/ (resp'.error = "no previous slot" /\ resp'.op = "rollback")
       /\ \A h \in Handlers :
            (hs[h].pc = "idle" /\ hs'[h].op = "rollback") => prevSlot # Nil]_vars

C17_Witness ==
    /\ resp = [op |-> "rollback", code |-> 400, success |-> FALSE,
                error |-> "no previous slot"]
    /\ liveSlot # Nil
    /\ running(liveSlot)
    /\ appProxy.port = slots[liveSlot].appPort

\* C18: a rollback whose restarted process fails the health check kills it,
\* waits for done and answers 500 "health check failed"; its steps leave
\* live, prev, both proxies and the disk as they were, so the prev slot and
\* its directory are there for another rollback.
C18_FailedRollbackKeepsState ==
    [][\A h \in Handlers : hs[h].op = "rollback" =>
         /\ hs[h].pc \in {"prepare", "health", "unhealthy", "failWait"} =>
               /\ liveSlot = hs[h].oldLive
               /\ prevSlot = hs[h].oldPrev
         /\ (hs[h].pc \in {"health", "unhealthy", "failWait"} /\ hs'[h] # hs[h]
                 /\ hs'[h].pc # "setApp") =>
               UNCHANGED <<liveSlot, prevSlot, lastDeploy, proxyVars, diskVars>>
         /\ (hs[h].pc = "unhealthy" /\ hs'[h] # hs[h]) =>
               /\ hs'[h].pc = "failWait"
               /\ slots'[hs[h].newSlot].proc # "running"
         /\ (hs[h].pc = "failWait" /\ hs'[h] # hs[h]) =>
               /\ slots[hs[h].newSlot].done
               /\ resp' = [op |-> "rollback", code |-> 500, success |-> FALSE,
                            error |-> "health check failed"]
               /\ prevSlot' # Nil
               /\ exists(slots'[prevSlot'].dir)]_vars

C18_Witness ==
    /\ resp = [op |-> "rollback", code |-> 500, success |-> FALSE,
                error |-> "health check failed"]
    /\ ~deploying
    /\ prevSlot # Nil
    /\ liveSlot # Nil
    /\ running(liveSlot)
    /\ appProxy.port = slots[liveSlot].appPort
    /\ \A s \in SlotIds : s # liveSlot => ~running(s)

\* C19: a deploy that fails before its process runs (worktree, ports, setup
\* command, spawn) answers 500 and leaves live, prev, both proxies and the
\* live and prev symlinks as they were; no process is started and no slot
\* directory other than staging is touched.
failedStart(h) == hs[h].op = "deploy" /\ hs[h].pc = "prepare" /\ hs'[h].pc = "idle"

C19_FailedStartKeepsState ==
    [][\A h \in Handlers : failedStart(h) =>
         /\ resp'.op = "deploy" /\ resp'.code = 500 /\ ~resp'.success
         /\ liveSlot = hs[h].oldLive /\ prevSlot = hs[h].oldPrev
         /\ UNCHANGED <<liveSlot, prevSlot, lastDeploy, proxyVars, links>>
         /\ \A s \in SlotIds : slots'[s].proc = slots[s].proc
         /\ \A n \in (DOMAIN dirs \cup DOMAIN dirs') \ {StagingName} :
               n \in DOMAIN dirs /\ n \in DOMAIN dirs' /\ dirs'[n] = dirs[n]]_vars

C19_Witness ==
    /\ resp = [op |-> "deploy", code |-> 500, success |-> FALSE, error |-> "start"]
    /\ ~deploying
    /\ liveSlot # Nil
    /\ prevSlot # Nil
    /\ running(liveSlot)
    /\ links.live = slots[liveSlot].name
    /\ links.prev = slots[prevSlot].name
    /\ appProxy.port = slots[liveSlot].appPort

\* C20: clearTarget only sets the port to 0: the listener stays open, and a
\* request that arrives while the target is cleared is accepted and answered
\* 503.
cleared == appProxy.port > 0 /\ appProxy'.port = 0
arrives == req.pc = "idle" /\ req' # req

C20_ClearKeepsListener ==
    [][/\ cleared => appProxy'.srv
       /\ (arrives /\ lastDeploy /\ appProxy.port = 0) => req'.pc = "accepted"
       /\ (answered /\ req.pc = "accepted" /\ appProxy.port = 0) =>
             req'.answer = "503"]_vars

\* C20 as the code has it: clearTarget sets the port to 0 and closes the
\* server, the listener and the connections it had accepted with it; a
\* request that arrives while the target is cleared is refused, one in flight
\* is dropped, and only setTarget opens the listener again.
C20_ClearClosesListener ==
    [][/\ cleared =>
            /\ ~appProxy'.srv
            /\ req.pc # "idle" => req'.conn = "closed"
       /\ (arrives /\ appProxy.port = 0) =>
            /\ req'.pc = "idle"
            /\ req'.answer = "refused"
       /\ (answered /\ req.pc # "idle" /\ appProxy.port = 0) => req'.answer = "reset"
       /\ (~appProxy.srv /\ appProxy'.srv) => appProxy'.port > 0]_vars

C20_Witness ==
    /\ lastDeploy
    /\ appProxy = [port |-> 0, srv |-> FALSE]
    /\ req.pc = "idle"
    /\ req.answer = "reset"

\* C21: at every instant, in the middle of a deploy or rollback too, the live
\* symlink, if there is one, names a directory that exists (and holds a
\* worktree with a commit checked out).
C21_LiveLinkValid == links.live = NoName \/ validLink(links.live)

\* C21, the part about the moments when no pipeline runs.
C21_LiveLinkValidAtRest == ~deploying => C21_LiveLinkValid

\* A deploy that renamed the live directory aside, staging not yet renamed.
C21_Witness ==
    \E h \in Handlers :
        /\ hs[h].pc = "promote"
        /\ hs[h].drainingDir # NoName
        /\ links.live = hs[h].slotName

\* C22: a deploy of commit c that ends with success, having replaced the
\* live slot L, leaves the live symlink reading slot-<c[:8]>, that directory
\* in place with c checked out, its process running there under that name,
\* and the prev symlink reading the name L had.
deployed(h) == hs[h].op = "deploy" /\ hs[h].pc = "linkPrev" /\ hs'[h].pc = "idle"

slotDirs(sl, live, prev) == {sl[s].dir : s \in {live, prev} \ {Nil}}

holdsPorts(s) == running(s) \/ orphan(s)
portsOf(s)    == {slots[s].appPort, slots[s].intPort}

C24_FreshPorts ==
    [][/\ \A s, t \in SlotIds : (s # t /\ holdsPorts(s)' /\ holdsPorts(t)') =>
             /\ slots'[s].appPort # slots'[t].appPort
             /\ portsOf(s)' \cap portsOf(t)' = {}
       /\ \A s \in SlotIds : (~holdsPorts(s) /\ running(s)') =>
             /\ <<slots'[s].appPort, slots'[s].intPort>> \in findFreePort
             /\ portsOf(s)' \cap boundPorts = {}
             /\ portsOf(s)' \subseteq Ports]_vars

\* A rollback has started the prev slot again, next to the live process, on
\* ports other than those its earlier instance had.
C24_Witness ==
    \E h \in Handlers :
        /\ hs[h].op = "rollback"
        /\ hs[h].pc = "health"
        /\ running(hs[h].newSlot)
        /\ running(hs[h].oldLive)
        /\ slots[hs[h].oldPrev].cmd
        /\ slots[hs[h].newSlot].appPort # slots[hs[h].oldPrev].appPort
        /\ slots[hs[h].newSlot].appPort # slots[hs[h].oldLive].appPort

\* C25: a request to the public proxy is handed to the intercept handler
\* exactly when its path is /chat, begins with /chat/ or begins with /agent/;
\* such a request is never forwarded to the app.
dispatched == req.pc = "accepted" /\ req'.pc # "accepted"

C25_InterceptsChatAndAgent ==
    [][dispatched =>
          (req'.pc = "agent" <=>
              \/ req.path = <<"/", "chat">>
              \/ HasPrefix(req.path, <<"/", "chat", "/">>)
              \/ HasPrefix(req.path, <<"/", "agent", "/">>))]_vars

\* C25, the part the code has: /chat itself and whatever begins with /agent/
\* go to the intercept handler, and nothing else does.
C25_InterceptsChatExactly ==
    [][dispatched =>
          (req'.pc = "agent" <=>
              \/ req.path = <<"/", "chat">>
              \/ HasPrefix(req.path, <<"/", "agent", "/">>))]_vars

\* A request for /chat/config has gone to the app.
C25_Witness ==
    /\ req.pc = "forward"
    /\ req.path = <<"/", "chat", "/", "config">>
    /\ req.conn = "open"
    /\ upstream(req.port) # {}

\* Every worktree on disk has an entry for the shared path.
SharedTyped == DOMAIN shared.at = DOMAIN dirs

\* C26: with shared_dirs configured the live slot has, at the shared path,
\* the canonical directory of the repo, whatever deploy made it live.
C26_LiveSeesCanonical ==
    (liveSlot # Nil /\ running(liveSlot) /\ slots[liveSlot].dir \in DOMAIN shared.at) =>
        shared.at[slots[liveSlot].dir] = Symlink

\* A file the previous live slot wrote at the shared path is not what the
\* live slot reads there.
C26_Witness ==
    /\ ~deploying
    /\ liveSlot # Nil /\ running(liveSlot) /\ slots[liveSlot].dir \in DOMAIN shared.at
    /\ prevSlot # Nil /\ slots[prevSlot].dir \in DOMAIN shared.at
    /\ AppFile \in shared.at[slots[prevSlot].dir].files
    /\ AppFile \notin sees(liveSlot).files

\* C27: when createStaging ends with applySharedDirs and the canonical
\* directory does not exist, the canonical directory is made with the files
\* slot-staging had at the shared path, and slot-staging gets the symlink.
C27_SeedsCanonical ==
    [][\A h \in Handlers :
        (staged(h) /\ shared.repo.kind = "none") =>
            \E c \in stagingCopies(shared, stagingSrc(h)) :
                /\ shared'.repo = Dir(c.at[StagingName].files)
                /\ shared'.at[StagingName] = Symlink]_vars

\* The checkout has a seed file, the canonical directory was made empty and
\* slot-staging has the symlink to it.
C27_Witness ==
    /\ ~deploying /\ resp.success
    /\ shared.tree = Dir({SeedFile})
    /\ shared.repo = Dir({})
    /\ StagingName \in DOMAIN shared.at
    /\ shared.at[StagingName] = Symlink

\* The agent's SSE stream is cut in this step: its connection was open and
\* is closed under the handler.
streamCut == req.pc = "stream" /\ req.conn = "open" /\ req'.conn = "closed"

\* C28: no step of a deploy or rollback cuts a running agent stream: the
\* promotion, the drains and the kill of a candidate leave it connected. The
\* only step that cuts it is the exit watcher's clearTarget for a live
\* process that exited on its own, with no signal from the orchestrator.
C28_DeployKeepsStream ==
    [][/\ streamCut =>
            \E s \in SlotIds : /\ slots[s].proc = "clearApp"
                               /\ slots'[s].proc = "clearInt"
                               /\ slots[s].sig = "none"
       /\ (req.pc = "stream" /\ \E h \in Handlers : hs'[h] # hs[h]) => req' = req]_vars

\* A stream that began before a deploy over a live slot is still connected
\* after the deploy answered success.
C28_Witness ==
    /\ req.pc = "stream" /\ req.conn = "open"
    /\ req.since < ops
    /\ ~deploying /\ resp.success /\ resp.op = "deploy"
    /\ liveSlot # Nil /\ prevSlot # Nil
    /\ appProxy.port = slots[liveSlot].appPort

\* The stream handlers that hold the run of conversation c: registered, and
\* not yet returned.
holders(c) == {g \in Streams : agent.st[g].conv = c /\ agent.st[g].pc \in {"spawn", "stream", "done", "killed"}}

\* C29: a conversation has at most one agent process and one handler that
\* holds its run, and its session entry is there exactly while a handler
\* holds it; a stream request that finds the entry is answered 409 and
\* changes nothing, one that finds none registers; when the handler returns
\* the entry is gone and no process of the conversation is left.
C29_OneRunPerConversation ==
    /\ [](\A c \in Convs :
            /\ agent.procs[c] <= 1
            /\ Cardinality(holders(c)) <= 1
            /\ c \in agent.sessions <=> holders(c) # {}
            /\ agent.procs[c] = 1 <=> \E g \in holders(c) : agent.st[g].pc = "stream")
    /\ [][\A g \in Streams :
            LET c == agent.st[g].conv IN
            /\ (agent.st[g].pc = "lock" /\ agent'.st[g].pc # "lock") =>
                  IF c \in agent.sessions
                  THEN /\ agent'.st[g] = [pc |-> "idle", conv |-> c, code |-> 409]
                       /\ agent'.sessions = agent.sessions
                       /\ agent'.procs = agent.procs
                  ELSE /\ agent'.st[g].pc = "spawn"
                       /\ agent'.sessions = agent.sessions \cup {c}
            /\ (agent.st[g].pc \in {"spawn", "done", "killed"} /\ agent'.st[g].pc = "idle") =>
                  /\ c \notin agent'.sessions
                  /\ agent'.procs[c] = 0]_vars

\* One conversation: a first run ended with its stream answered, a second
\* run is streaming, and a request that came meanwhile was answered 409.
C29_Witness ==
    \E c \in Convs : \E g1, g2, g3 \in Streams :
        /\ agent.st[g1] = [pc |-> "idle", conv |-> c, code |-> 200]
        /\ agent.st[g2] = [pc |-> "stream", conv |-> c, code |-> 200]
        /\ agent.st[g3] = [pc |-> "idle", conv |-> c, code |-> 409]
        /\ agent.procs[c] = 1

\* A pipeline returns in this step of h.
returned(h) == hs[h].pc # "idle" /\ hs'[h].pc = "idle"

\* C30: a pipeline that began returns, and every return (success,
\* unhealthy, error, panic) leaves deploying = false: deploying is set
\* exactly while a request goroutine is inside a pipeline, and whenever it
\* is set it is reset later.
C30_PipelineEnds ==
    /\ [](deploying <=> \E h \in Handlers : hs[h].pc # "idle")
    /\ [][\A h \in Handlers : returned(h) => (~deploying' /\ resp'.op = hs[h].op)]_vars
    /\ deploying ~> ~deploying
    /\ \A h \in Handlers : (hs[h].pc # "idle") ~> (hs[h].pc = "idle" /\ resp.op # "none")

\* A second pipeline was accepted and answered success after a first one
\* that promoted nothing (it returned on an error path).
C30_Witness ==
    /\ ~deploying
    /\ ops = 2
    /\ resp.success /\ resp.op = "deploy"
    /\ liveSlot # Nil
    /\ prevSlot = Nil
    /\ \A h \in Handlers : hs[h].pc = "idle"

\* No pipeline runs and no exit watcher is inside its critical section.
atRest == ~deploying /\ mu = Nil

\* C31: at rest the public proxy's target is the app port of the live slot
\* when there is a live slot that is alive, and unset otherwise.
C31_ProxyFollowsLive ==
    atRest =>
        IF liveSlot # Nil /\ slots[liveSlot].alive
        THEN appProxy.port = slots[liveSlot].appPort
        ELSE appProxy.port = 0

\* A deploy answered success; the live slot's process has exited, its exit
\* watcher has finished, and the public proxy still targets its port.
C31_Witness ==
    /\ atRest
    /\ resp.success /\ resp.op = "deploy"
    /\ liveSlot # Nil
    /\ ~slots[liveSlot].alive /\ slots[liveSlot].done
    /\ appProxy.port = slots[liveSlot].appPort
    /\ appProxy.port # 0

\* The process of slot s exits, or its exit watcher moves, in this step.
exitStep(s) ==
    /\ slots[s].proc \in {"running", "exited", "clearApp", "clearInt", "close"}
    /\ slots'[s].proc # slots[s].proc
    /\ slots'[s].proc \in {"exited", "clearApp", "clearInt", "close", "reaped"}

\* C32: the exit of a slot that is not o.liveSlot, and every step of its
\* exit watcher, leaves both proxy targets as they are; a watcher is at
\* clearTarget only for the slot that is live.
C32_OtherExitKeepsTargets ==
    /\ [](\A s \in SlotIds : slots[s].proc \in {"clearApp", "clearInt"} => liveSlot = s)
    /\ [][\A s \in SlotIds :
            (exitStep(s) /\ liveSlot # s) =>
                (appProxy' = appProxy /\ intProxy' = intProxy)]_vars

\* The old live was drained after the switch, its watcher has closed done,
\* and both proxies target the ports of the new live.
C32_Witness ==
    /\ liveSlot # Nil /\ prevSlot # Nil /\ prevSlot # liveSlot
    /\ slots[prevSlot].cmd /\ slots[prevSlot].done /\ ~slots[prevSlot].alive
    /\ running(liveSlot)
    /\ appProxy.port = slots[liveSlot].appPort
    /\ intProxy.port = slots[liveSlot].intPort

\* What GET /status reports of the two slots.
statusPair == <<handleStatus.live_slot, handleStatus.live_commit,
                handleStatus.previous_slot, handleStatus.previous_commit>>

\* The report for live = a and prev = b.
pairOf(a, b) ==
    <<IF a # Nil THEN slots[a].name ELSE NoName, slotCommit(a),
      IF b # Nil THEN slots[b].name ELSE NoName, slotCommit(b)>>

\* The pipeline of h has passed its switch.
switched(h) ==
    \/ hs[h].pc \in {"linkLive", "linkPrev"}
    \/ hs[h].pc \in {"drain", "drainWait", "drainKilled"} /\ hs[h].ret = "linkLive"

\* C33: while a pipeline runs, o.liveSlot and o.prevSlot are the pair it
\* found (oldLive, oldPrev) until its switch and the pair (newSlot, oldLive)
\* from then on, and GET /status reports that pair; the two are written in
\* one step, under o.mu, and by nothing else.
C33_SwitchAtomic ==
    /\ [](\A h \in Handlers : hs[h].pc # "idle" =>
            /\ <<liveSlot, prevSlot>> =
                   IF switched(h) THEN <<hs[h].newSlot, hs[h].oldLive>>
                   ELSE <<hs[h].oldLive, hs[h].oldPrev>>
            /\ statusPair = IF switched(h) THEN pairOf(hs[h].newSlot, hs[h].oldLive)
                            ELSE pairOf(hs[h].oldLive, hs[h].oldPrev))
    /\ [][(liveSlot' # liveSlot \/ prevSlot' # prevSlot) =>
            \E h \in Handlers :
                /\ hs[h].pc = "switch" /\ mu = Nil
                /\ liveSlot' = hs[h].newSlot
                /\ prevSlot' = hs[h].oldLive
                /\ switched(h)']_vars

\* A rollback has switched and is draining the old live: status reports
\* the swapped pair, live of the prev commit and prev of the old live's.
C33_Witness ==
    \E h \in Handlers :
        /\ hs[h].op = "rollback"
        /\ hs[h].pc = "drainWait" /\ hs[h].ret = "linkLive"
        /\ handleStatus.live_commit = slots[hs[h].oldPrev].commit
        /\ handleStatus.previous_commit = slots[hs[h].oldLive].commit
        /\ handleStatus.live_commit # handleStatus.previous_commit

\* The directories a pipeline step deletes: removeWorktree(oldPrev.dir) and
\* os.RemoveAll(drainingDir); a rename deletes nothing.
removedBy(h) ==
    IF hs[h].pc \in {"gcRemove", "linkLive"} /\ hs'[h] # hs[h]
    THEN DOMAIN dirs \ DOMAIN dirs' ELSE {}

\* C34: a pipeline step never deletes the directory the live slot runs
\* from, nor the directory of the slot it is promoting.
C34_LiveDirKept ==
    [][\A h \in Handlers : \A n \in removedBy(h) :
          /\ liveSlot # Nil => n # slots[liveSlot].dir
          /\ hs[h].newSlot # Nil => n # slots[hs[h].newSlot].dir]_vars

\* The GC of the old prev has run, and the directory the live process was
\* started in is gone while that process runs and is still live.
C34_Witness ==
    \E h \in Handlers :
        /\ hs[h].pc = "aside"
        /\ hs[h].oldPrev # Nil
        /\ liveSlot # Nil /\ running(liveSlot)
        /\ slots[hs[h].oldPrev].dir = slots[liveSlot].dir
        /\ slots[liveSlot].dir \notin DOMAIN dirs
        /\ links.live = slots[liveSlot].dir

\* C35: when no pipeline runs, every process the daemon spawned that still
\* runs is the live slot's.
C35_OnlyLiveRuns ==
    ~deploying => \A s \in SlotIds : running(s) => s = liveSlot

\* C35, for the processes of full-length commits.
C35_OnlyLiveRunsFullLength ==
    ~deploying =>
        \A s \in SlotIds : (running(s) /\ Len(slots[s].commit) >= PrefixLen) => s = liveSlot

\* No pipeline runs, and a process runs that is in neither o.liveSlot nor
\* o.prevSlot, next to a live slot that runs too.
C35_Witness ==
    /\ ~deploying
    /\ liveSlot # Nil /\ running(liveSlot)
    /\ \E s \in SlotIds : running(s) /\ s # liveSlot /\ s # prevSlot

\* The live process has exited, its watcher has finished and closed both
\* proxies.
crashedCleared ==
    /\ liveSlot # Nil
    /\ slots[liveSlot].done
    /\ ~slots[liveSlot].alive
    /\ appProxy = [port |-> 0, srv |-> FALSE]
    /\ intProxy = [port |-> 0, srv |-> FALSE]

\* Deploy h is about to retarget the proxies to its new slot n while the
\* service is down.
retargets(h, n) ==
    /\ hs[h].op = "deploy"
    /\ hs[h].pc = "setApp"
    /\ hs[h].newSlot = n
    /\ crashedCleared

\* The deploy of n has answered and n's process is up: the public proxy
\* listens, forwards to n, and GET /status says healthy.
restored(n) ==
    (atRest /\ liveSlot = n /\ running(n))
        => /\ appProxy.srv
           /\ appProxy.port = slots[n].appPort
           /\ intProxy.srv
           /\ intProxy.port = slots[n].intPort
           /\ handleStatus.healthy

\* C36: after the live process has crashed and both proxy targets were
\* cleared, the deploy that follows restores service: once it has answered,
\* and for as long as its new process runs, the public proxy accepts
\* connections, routes to the new slot, and status reports healthy = true.
C36_DeployRestores ==
    \A h \in Handlers : \A n \in SlotIds :
        [](retargets(h, n) => [](restored(n)))

C36_Witness ==
    /\ atRest
    /\ resp.op = "deploy" /\ resp.success
    /\ liveSlot # Nil /\ running(liveSlot)
    /\ prevSlot # Nil
    /\ slots[prevSlot].done /\ slots[prevSlot].sig = "none"
    /\ appProxy.srv /\ appProxy.port = slots[liveSlot].appPort
    /\ handleStatus.healthy

\* C37: after Deploy(A), Deploy(B), Rollback the slot moved into prev (B's)
\* still has its directory, so it can be started; after a second Rollback
\* the status reports B as live and A as previous again, and A's slot in
\* prev has its directory too.
deployDeployRollbackRollback ==
    /\ ~deploying
    /\ Len(hist) = 4
    /\ hist[1].op = "deploy" /\ hist[2].op = "deploy"
    /\ hist[3].op = "rollback" /\ hist[4].op = "rollback"
    /\ hist[1].commit # hist[2].commit

startable(s, commit) ==
    /\ s # Nil
    /\ slots[s].commit = commit
    /\ exists(slots[s].dir)
    /\ dirs[slots[s].dir] = commit

C37_RollbackTwice ==
    /\ deployDeployRollback => startable(prevSlot, hist[2].commit)
    /\ deployDeployRollbackRollback =>
          /\ handleStatus.live_commit = hist[2].commit
          /\ handleStatus.previous_commit = hist[1].commit
          /\ startable(prevSlot, hist[1].commit)

C37_Witness ==
    /\ deployDeployRollbackRollback
    /\ atRest
    /\ handleStatus.live_commit = hist[2].commit
    /\ handleStatus.previous_commit = hist[1].commit
    /\ running(liveSlot)

\* What recoverState loads from the disk when the process it starts is
\* healthy: the live symlink's directory and its HEAD, then the prev
\* symlink's.
recovered ==
    IF links.live = NoName \/ ~exists(links.live)
    THEN [live_commit |-> << >>, previous_commit |-> << >>]
    ELSE [live_commit     |-> dirs[links.live],
          previous_commit |-> IF links.prev # NoName /\ exists(links.prev)
                              THEN dirs[links.prev] ELSE << >>]

linksAgree ==
    /\ liveSlot # Nil => links.live = slots[liveSlot].name
    /\ prevSlot # Nil => links.prev = slots[prevSlot].name
    /\ prevSlot = Nil => links.prev = NoName

\* C38: whenever no pipeline is in progress the live symlink names the live
\* slot, the prev symlink names the prev slot when there is one and nothing
\* otherwise, and a daemon restarted on this disk loads the live_commit and
\* previous_commit that status reports now.
C38_DiskAgrees ==
    atRest =>
        /\ linksAgree
        /\ recovered.live_commit = handleStatus.live_commit
        /\ recovered.previous_commit = handleStatus.previous_commit

\* C38, the symlinks alone.
C38_LinksAgree == atRest => linksAgree

C38_Witness ==
    /\ atRest
    /\ liveSlot # Nil /\ running(liveSlot)
    /\ prevSlot # Nil
    /\ linksAgree
    /\ ~exists(links.prev)
    /\ handleStatus.previous_commit # << >>
    /\ recovered.previous_commit = << >>

\* Deploy h returns in this step.
deployReturns(h) ==
    /\ hs[h].op = "deploy"
    /\ hs[h].pc # "idle"
    /\ hs'[h].pc = "idle"

\* C39: a deploy of any resolvable commit, one shorter than 8 characters
\* included, never returns with the process it started still running and
\* tracked neither as live nor as prev.
C39_NoUntrackedCandidate ==
    [][\A h \in Handlers :
          (deployReturns(h) /\ hs[h].newSlot # Nil /\ slots'[hs[h].newSlot].proc = "running")
              => hs[h].newSlot \in {liveSlot', prevSlot'}]_vars

\* C39 for the commits of at least 8 characters.
C39_FullLengthTracked ==
    [][\A h \in Handlers :
          (deployReturns(h) /\ Len(hs[h].commit) >= PrefixLen
             /\ hs[h].newSlot # Nil /\ slots'[hs[h].newSlot].proc = "running")
              => hs[h].newSlot \in {liveSlot', prevSlot'}]_vars

C39_Witness ==
    /\ atRest
    /\ resp.op = "deploy" /\ ~resp.success /\ resp.error = "panic"
    /\ \E s \in SlotIds :
          /\ running(s)
          /\ slots[s].commit = CommitS
          /\ s \notin {liveSlot, prevSlot}

\* The slot object at s, if any: one with a process, or a cold one.
isSlot(s) == slots[s].cmd \/ slots[s].name # NoName
cold(s)   == ~slots[s].cmd /\ slots[s].name # NoName

\* The same slot object is at s before and after the step: the cell was not
\* blanked, and the daemon (with all of its memory) did not exit.
sameSlot(s) == isSlot(s) /\ slots'[s].cmd = slots[s].cmd /\ slots'[s].name # NoName
                         /\ hs'[Main].pc # "exited"

\* C40: alive goes from true to false only in the slot's exit watcher, after
\* the process has exited; done fires only in the watcher, after alive was
\* cleared, and once fired stays fired; a cold slot is never alive and has
\* done fired; a slot with alive = true has a process not yet reaped.
slotShape ==
    \A s \in SlotIds :
        /\ cold(s) => ~slots[s].alive /\ slots[s].done
        /\ slots[s].alive => /\ slots[s].cmd
                             /\ ~slots[s].done
                             /\ slots[s].proc \in {"running", "exited"}
        /\ slots[s].done => ~slots[s].alive

slotSteps ==
    \A s \in SlotIds :
        /\ (slots[s].alive /\ ~slots'[s].alive /\ hs'[Main].pc # "exited")
              => /\ slots[s].proc = "exited"
                 /\ slots'[s].proc \in {"clearApp", "close"}
        /\ (slots[s].cmd /\ ~slots[s].done /\ slots'[s].done)
              => /\ slots[s].proc = "close"
                 /\ ~slots[s].alive
                 /\ slots'[s].proc = "reaped"
        /\ (sameSlot(s) /\ slots[s].done) => slots'[s].done

C40_AliveAndDone == []slotShape /\ [][slotSteps]_vars

C40_Witness ==
    /\ boots > 0
    /\ prevSlot # Nil /\ cold(prevSlot) /\ slots[prevSlot].done
    /\ liveSlot # Nil /\ slots[liveSlot].cmd
    /\ ~slots[liveSlot].alive /\ slots[liveSlot].done
    /\ slots[liveSlot].proc = "reaped"

====
